---- MODULE Spec2Model ----
(***************************************************************************)
(* Model of the GTFS journey planner: GTFSDataLoader (data_loader.py) and  *)
(* RouteCalculator (route_calculator.py).                                  *)
(*                                                                         *)
(* Times are seconds since service midnight, kept as small integers.       *)
(* Dates are day numbers; the weekday of day d is d % 7.                   *)
(* RouteCalculator reads data.trips and data.stop_times as tables; the     *)
(* model keeps them as the loader's rows in file order.                    *)
(***************************************************************************)
EXTENDS Integers, Sequences, FiniteSets, TLC

VARIABLES
    stops,           \* GTFSDataLoader.stops: rows of stops.txt, file order
    stop_times,      \* rows of stop_times.txt, file order
    trip_to_service, \* GTFSDataLoader.trip_to_service
    calendar,        \* GTFSDataLoader.calendar: service_id -> range and weekdays
    calendar_dates,  \* GTFSDataLoader.calendar_dates: date -> rows (service_id, exception_type)
    service_cache,   \* GTFSDataLoader.service_cache: date -> <<set of service ids>>, or NoEntry
    query,           \* arguments of the find_route_by_ids call under study
    hash_order,      \* iteration order of the set of end stop ids of the query in this process
    runs,            \* number of times the query has been run
    routes,          \* result of the latest run
    prev_routes,     \* result of the run before the latest
    chains,          \* for each returned route, its unmerged connections_list
    call,            \* the latest call of another method: its name, arguments and return value
    feed,            \* the files of data_dir that GTFSDataLoader.__init__ reads
    threads,         \* the threads inside get_valid_services: position and locals of each
    scan,            \* the scan loop of a running _find_multiple_routes: position and label store
    cancel_requested \* whether the caller of the running query has asked to abandon it

vars == <<stops, stop_times, trip_to_service, calendar, calendar_dates,
          service_cache, query, hash_order, runs, routes, prev_routes, chains,
          call, feed, threads, scan, cancel_requested>>

\* the tables of the loaded planner, immutable after load
planner_vars == <<stops, stop_times, trip_to_service, calendar, calendar_dates>>

\* the state of the query under study and of its runs
query_vars == <<query, hash_order, runs, routes, prev_routes, chains>>

\* the state that only the other operations use
aux_vars == <<call, feed, threads, scan, cancel_requested>>

----------------------------------------------------------------------------
(* Bounds of the model *)

MaxDep == 2
MaxRoutes == 3
MaxRuns == 2
MaxExceptions == 2

Dates == {1, 2}
Services == {"S1", "S2"}
TripIds == <<"T1", "T2">>
StopIds == {"A", "B", "B1", "C"}
NoEntry == <<>>
None == "None"
NoTime == -1
NoLabel == 0
NoCall == [op |-> "none", arg |-> <<>>, ret |-> <<>>]
NoFeed == <<>>
NoThreads == <<>>
NoScan == [running |-> FALSE]

\* no other operation is under way
AuxIdle ==
    /\ call = NoCall
    /\ feed = NoFeed
    /\ threads = NoThreads
    /\ scan = NoScan
    /\ cancel_requested = FALSE

----------------------------------------------------------------------------
(* Generic helpers: Python list and sort semantics *)

Range(s) == {s[i] : i \in 1 .. Len(s)}

Max2(a, b) == IF a >= b THEN a ELSE b

\* the positions of a boolean column that hold TRUE, ascending
SelectIdx(keep) == SelectSeq([i \in 1 .. Len(keep) |-> i], LAMBDA i : keep[i])

\* list.sort / sort_values(kind='mergesort'): the stable order of the
\* indices 1..n of keys, ascending by key.
RECURSIVE StableOrder(_, _)
StableOrder(keys, n) ==
    IF n = 0 THEN <<>>
    ELSE LET before == StableOrder(keys, n - 1)
             p == Cardinality({j \in 1 .. n - 1 : keys[before[j]] <= keys[n]})
         IN  SubSeq(before, 1, p) \o <<n>> \o SubSeq(before, p + 1, n - 1)

SortByKey(s, keys) ==
    LET ord == StableOrder(keys, Len(s)) IN [i \in 1 .. Len(s) |-> s[ord[i]]]

RECURSIVE Concat(_)
Concat(ss) == IF ss = <<>> THEN <<>> ELSE Head(ss) \o Concat(Tail(ss))

\* order-preserving de-duplication ("uniq" loops)
RECURSIVE Uniq(_)
Uniq(s) ==
    IF s = <<>> THEN <<>>
    ELSE LET front == Uniq(SubSeq(s, 1, Len(s) - 1))
         IN  IF s[Len(s)] \in Range(front) THEN front ELSE Append(front, s[Len(s)])

----------------------------------------------------------------------------
(* data_loader.py: station topology *)

\* _stop_to_parent.get(stop_id): the last row of the stop wins; "" if unknown
StopToParent(stop_id) ==
    LET rows == {i \in 1 .. Len(stops) : stops[i].stop_id = stop_id}
    IN  IF rows = {} THEN ""
        ELSE stops[CHOOSE i \in rows : \A j \in rows : j <= i].parent_station

\* _parent_to_children.get(station_id): children in file order (<<>> if none)
ParentToChildren(station_id) ==
    LET ix == SelectIdx([i \in 1 .. Len(stops) |->
                  stops[i].parent_station = station_id])
    IN  [k \in 1 .. Len(ix) |-> stops[ix[k]].stop_id]

\* mutant: the children of the stop itself are listed, its parent is not looked up
expand_from_stop(stop_id) ==
    IF stop_id = "" THEN <<>>
    ELSE Uniq(<<stop_id>> \o ParentToChildren(stop_id))

expand_station_stop_ids(stop_id) ==
    IF stop_id = "" THEN <<>>
    ELSE LET parent == StopToParent(stop_id)
             station_id == IF parent # "" THEN parent ELSE stop_id
         IN  Uniq(<<station_id>> \o ParentToChildren(station_id))

get_stop_name(stop_id) ==
    LET rows == {i \in 1 .. Len(stops) : stops[i].stop_id = stop_id}
    IN  IF rows = {} THEN ""
        ELSE stops[CHOOSE i \in rows : \A j \in rows : j <= i].stop_name

----------------------------------------------------------------------------
(* data_loader.py: calendar *)

get_weekday_name(date_obj) == date_obj % 7

\* the loop over self.calendar
RegularServices(date_obj) ==
    {s \in DOMAIN calendar :
        /\ calendar[s].start_date <= date_obj
        /\ date_obj <= calendar[s].end_date
        /\ get_weekday_name(date_obj) \in calendar[s].weekdays}

\* the while loop over the exception rows of the date, in row order
RECURSIVE ApplyExceptions(_, _, _)
ApplyExceptions(valid, exceptions, i) ==
    IF i > Len(exceptions) THEN valid
    ELSE LET service_id == exceptions[i][1]
             exc_type == exceptions[i][2]
         IN  IF exc_type = 1
             THEN ApplyExceptions(valid \cup {service_id}, exceptions, i + 1)
             ELSE IF exc_type = 2
             THEN ApplyExceptions(valid \ {service_id}, exceptions, i + 1)
             ELSE ApplyExceptions(valid, exceptions, i + 1)

ComputeValidServices(date_obj) ==
    ApplyExceptions(RegularServices(date_obj), calendar_dates[date_obj], 1)

\* mutant: the memo keeps the set as it was before the exception rows
get_valid_services_stale(cache, date_obj) ==
    IF cache[date_obj] # NoEntry
    THEN [valid |-> cache[date_obj][1], cache |-> cache]
    ELSE [valid |-> ComputeValidServices(date_obj),
          cache |-> [cache EXCEPT ![date_obj] = <<RegularServices(date_obj)>>]]

\* get_valid_services: the value returned, and the memo afterwards
get_valid_services(cache, date_obj) ==
    IF cache[date_obj] # NoEntry
    THEN [valid |-> cache[date_obj][1], cache |-> cache]
    ELSE LET valid == ComputeValidServices(date_obj)
         IN  [valid |-> valid, cache |-> [cache EXCEPT ![date_obj] = <<valid>>]]

----------------------------------------------------------------------------
(* route_calculator.py: _build_connections *)

\* data.trips: the route_name column of a trip
trip_to_route_name(trip_id) == IF trip_id = "T1" THEN "R1" ELSE "R2"

\* string order of trip ids, as sort_values compares them
TripRank(trip_id) == CHOOSE i \in 1 .. Len(TripIds) : TripIds[i] = trip_id

\* mutant: the trips are not filtered by service
AllTrips(valid_services) == DOMAIN trip_to_service

\* trips[trips.service_id.isin(valid_services)]
ValidTrips(valid_services) ==
    {t \in DOMAIN trip_to_service : trip_to_service[t] \in valid_services}

\* stop_times.merge(valid_trips, on='trip_id', how='inner'): rows keep file order
MergeTripStops(valid_services) ==
    SelectSeq(stop_times, LAMBDA r : r.trip_id \in ValidTrips(valid_services))

\* trip_stops[trip_stops.departure_time_sec >= start_time_sec]
FilterByStartTime(trip_stops, start_time_sec) ==
    SelectSeq(trip_stops, LAMBDA r : r.departure_time_sec >= start_time_sec)

\* sort_values(['trip_id', 'stop_sequence'], kind='mergesort')
SortTripStops(trip_stops) ==
    LET by_seq == SortByKey(trip_stops,
                     [i \in 1 .. Len(trip_stops) |-> trip_stops[i].stop_sequence])
    IN  SortByKey(by_seq, [i \in 1 .. Len(by_seq) |-> TripRank(by_seq[i].trip_id)])

\* groupby('trip_id').shift(-1), notna() and the renaming of the columns
PairWithNext(sorted) ==
    LET ix == SelectIdx([i \in 1 .. Len(sorted) |->
                  i < Len(sorted) /\ sorted[i + 1].trip_id = sorted[i].trip_id])
    IN  [k \in 1 .. Len(ix) |->
            [trip_id    |-> sorted[ix[k]].trip_id,
             dep_stop   |-> sorted[ix[k]].stop_id,
             arr_stop   |-> sorted[ix[k] + 1].stop_id,
             dep_time   |-> sorted[ix[k]].departure_time_sec,
             arr_time   |-> sorted[ix[k] + 1].arrival_time_sec,
             route_name |-> trip_to_route_name(sorted[ix[k]].trip_id)]]

\* mutant: connections that do not arrive after they leave are kept
KeepAllTimes(conns) == conns

\* conns[conns.arr_time > conns.dep_time]
FilterValidTimes(conns) == SelectSeq(conns, LAMBDA c : c.arr_time > c.dep_time)

\* mutant: the connections stay in the order of the paired rows
KeepPairOrder(conns) == conns

\* sort_values('dep_time', kind='mergesort')
SortByDepTime(conns) ==
    SortByKey(conns, [i \in 1 .. Len(conns) |-> conns[i].dep_time])

build_connections(valid_services, start_time_sec) ==
    IF valid_services = {} THEN <<>>
    ELSE LET trip_stops == FilterByStartTime(MergeTripStops(valid_services),
                                             start_time_sec)
         IN  IF Len(trip_stops) = 0 THEN <<>>
             ELSE SortByDepTime(FilterValidTimes(PairWithNext(SortTripStops(trip_stops))))

----------------------------------------------------------------------------
(* route_calculator.py: _Label and the label store of _find_multiple_routes *)

\* A label object lives in heap; its identity is its index. prev is the
\* index of the predecessor object, NoLabel for None.
StartLabel(sid, start_time_sec) ==
    [stop_id |-> sid, arrival_time |-> start_time_sec, prev |-> NoLabel,
     trip_id |-> None, route_name |-> "", dep_stop |-> None, dep_time |-> NoTime]

NewLabel(c, lab_id) ==
    [stop_id |-> c.arr_stop, arrival_time |-> c.arr_time, prev |-> lab_id,
     trip_id |-> c.trip_id, route_name |-> c.route_name,
     dep_stop |-> c.dep_stop, dep_time |-> c.dep_time]

max_labels_per_stop(max_routes) == Max2(8, max_routes * 3)

\* the "Duplikate vermeiden" loop of try_insert_label
IsDuplicateLabel(heap, labels, label) ==
    \E k \in 1 .. Len(labels) :
        LET existing == heap[labels[k]]
        IN  /\ existing.arrival_time = label.arrival_time
            /\ existing.trip_id = label.trip_id
            /\ existing.dep_stop = label.dep_stop
            /\ existing.dep_time = label.dep_time
            /\ existing.prev = label.prev

\* mutant: the new label goes before the labels that arrive at the same time
RECURSIVE InsertPosBeforeEqual(_, _, _, _)
InsertPosBeforeEqual(heap, labels, label, i) ==
    IF i < Len(labels) /\ heap[labels[i + 1]].arrival_time < label.arrival_time
    THEN InsertPosBeforeEqual(heap, labels, label, i + 1)
    ELSE i

\* the while loop that finds the insert position (0-based i of the code)
RECURSIVE InsertPos(_, _, _, _)
InsertPos(heap, labels, label, i) ==
    IF i < Len(labels) /\ heap[labels[i + 1]].arrival_time <= label.arrival_time
    THEN InsertPos(heap, labels, label, i + 1)
    ELSE i

try_insert_label(st, max_routes, stop_id, label) ==
    LET labels == st.labels_by_stop[stop_id]
        cap == max_labels_per_stop(max_routes)
    IN  IF /\ Len(labels) >= cap
           /\ label.arrival_time >= st.heap[labels[Len(labels)]].arrival_time
        THEN [inserted |-> FALSE, st |-> st]
        ELSE IF IsDuplicateLabel(st.heap, labels, label)
        THEN [inserted |-> FALSE, st |-> st]
        ELSE LET new_id == Len(st.heap) + 1
                 i == InsertPos(st.heap, labels, label, 0)
                 grown == SubSeq(labels, 1, i) \o <<new_id>>
                              \o SubSeq(labels, i + 1, Len(labels))
                 kept == IF Len(grown) > cap
                         THEN SubSeq(grown, 1, Len(grown) - 1) ELSE grown
             IN  [inserted |-> TRUE,
                  st |-> [st EXCEPT !.heap = Append(st.heap, label),
                                    !.labels_by_stop[stop_id] = kept]]

\* all labels of the end stops, in the iteration order of effective_end_ids
EndLabels(st, end_ids) ==
    Concat([k \in 1 .. Len(end_ids) |-> st.labels_by_stop[end_ids[k]]])

SortByArrival(heap, ids) ==
    SortByKey(ids, [i \in 1 .. Len(ids) |-> heap[ids[i]].arrival_time])

recompute_worst_end_arrival(st, max_routes, end_ids) ==
    LET all_end == EndLabels(st, end_ids)
    IN  IF Len(all_end) < max_routes THEN NoTime
        ELSE st.heap[SortByArrival(st.heap, all_end)[max_routes]].arrival_time

\* the labels placed before the scan
InitLabels(start_ids, start_time_sec) ==
    [heap |-> [k \in 1 .. Len(start_ids) |-> StartLabel(start_ids[k], start_time_sec)],
     labels_by_stop |->
         [s \in StopIds |->
             SelectIdx([k \in 1 .. Len(start_ids) |-> start_ids[k] = s])],
     worst_end_arrival |-> NoTime]

\* mutant: every label of the stop boards the connection
CanBoardAlways(lab, c) == TRUE

\* a label can board c unless it arrives after c leaves ("if lab.arrival_time > dep_time_i: break")
CanBoard(lab, c) == lab.arrival_time <= c.dep_time

\* "for lab in dep_labels": position i of the live list of dep_stop
RECURSIVE ExtendLabels(_, _, _, _, _)
ExtendLabels(st, c, i, max_routes, end_ids) ==
    LET dep_labels == st.labels_by_stop[c.dep_stop]
    IN  IF i > Len(dep_labels) THEN st
        ELSE IF ~CanBoard(st.heap[dep_labels[i]], c) THEN st
        ELSE LET r == try_insert_label(st, max_routes, c.arr_stop,
                                       NewLabel(c, dep_labels[i]))
                 st2 == IF r.inserted /\ c.arr_stop \in Range(end_ids)
                        THEN [r.st EXCEPT !.worst_end_arrival =
                                 recompute_worst_end_arrival(r.st, max_routes, end_ids)]
                        ELSE r.st
             IN  ExtendLabels(st2, c, i + 1, max_routes, end_ids)

\* the early-stop test without the comparison with the departure time
EarlyStopAnyTime(st, c) == st.worst_end_arrival # NoTime

\* the early stop test at the head of the scan loop
EarlyStop(st, c) ==
    st.worst_end_arrival # NoTime /\ c.dep_time > st.worst_end_arrival

\* the body of the scan loop after the early stop test
ScanConnection(st, c, max_routes, end_ids) ==
    IF Len(st.labels_by_stop[c.dep_stop]) = 0 THEN st
    ELSE ExtendLabels(st, c, 1, max_routes, end_ids)

RECURSIVE ScanFrom(_, _, _, _, _)
ScanFrom(st, connections, k, max_routes, end_ids) ==
    IF k > Len(connections) THEN st
    ELSE IF EarlyStop(st, connections[k]) THEN st
    ELSE ScanFrom(ScanConnection(st, connections[k], max_routes, end_ids),
                  connections, k + 1, max_routes, end_ids)

----------------------------------------------------------------------------
(* route_calculator.py: _reconstruct_route_from_label *)

\* the while loop over cur.prev: connections_rev, or failure (return None)
RECURSIVE CollectRev(_, _, _)
CollectRev(heap, cur, visited) ==
    IF heap[cur].prev = NoLabel THEN [ok |-> TRUE, list |-> <<>>]
    ELSE IF cur \in visited THEN [ok |-> FALSE, list |-> <<>>]
    ELSE IF \/ heap[cur].trip_id = None
            \/ heap[cur].dep_stop = None
            \/ heap[cur].dep_time = NoTime
    THEN [ok |-> FALSE, list |-> <<>>]
    ELSE LET rest == CollectRev(heap, heap[cur].prev, visited \cup {cur})
             conn == [trip_id    |-> heap[cur].trip_id,
                      route_name |-> heap[cur].route_name,
                      dep_stop   |-> heap[cur].dep_stop,
                      dep_time   |-> heap[cur].dep_time,
                      arr_stop   |-> heap[cur].stop_id,
                      arr_time   |-> heap[cur].arrival_time]
         IN  IF rest.ok THEN [ok |-> TRUE, list |-> <<conn>> \o rest.list]
             ELSE rest

Reverse(s) == [i \in 1 .. Len(s) |-> s[Len(s) + 1 - i]]

\* connections_list of an end label; <<>> where the code returns None
ConnectionsList(heap, end_label) ==
    LET r == CollectRev(heap, end_label, {})
    IN  IF r.ok THEN Reverse(r.list) ELSE <<>>

\* mutant: a ride continues only after a positive dwell
SameRideStrict(cur, c) ==
    /\ c.trip_id = cur.trip_id
    /\ cur.arr_stop = c.dep_stop
    /\ cur.arr_time < c.dep_time

\* the test that continues the current ride
SameRide(cur, c) ==
    /\ c.trip_id = cur.trip_id
    /\ cur.arr_stop = c.dep_stop
    /\ cur.arr_time <= c.dep_time

\* the loop over connections_list[1:]; cur is the ride being built
RECURSIVE MergeRides(_, _, _, _)
MergeRides(connections_list, i, cur, optimized) ==
    IF i > Len(connections_list) THEN Append(optimized, cur)
    ELSE LET c == connections_list[i]
         IN  IF SameRide(cur, c)
             THEN MergeRides(connections_list, i + 1,
                             [cur EXCEPT !.arr_stop = c.arr_stop,
                                         !.arr_time = c.arr_time],
                             optimized)
             ELSE MergeRides(connections_list, i + 1, c, Append(optimized, cur))

OptimizedConnections(connections_list) ==
    MergeRides(connections_list, 2, connections_list[1], <<>>)

\* mutant: the wait is counted from the previous ride's departure
WaitTimeSinceDeparture(optimized, i) ==
    IF i > 1 /\ optimized[i - 1].arr_stop = optimized[i].dep_stop
    THEN Max2(0, optimized[i].dep_time - optimized[i - 1].dep_time)
    ELSE 0

WaitTime(optimized, i) ==
    IF i > 1 /\ optimized[i - 1].arr_stop = optimized[i].dep_stop
    THEN Max2(0, optimized[i].dep_time - optimized[i - 1].arr_time)
    ELSE 0

RouteSegments(optimized) ==
    [i \in 1 .. Len(optimized) |->
        [trip_id             |-> optimized[i].trip_id,
         route_name          |-> optimized[i].route_name,
         departure_stop      |-> optimized[i].dep_stop,
         departure_stop_name |-> get_stop_name(optimized[i].dep_stop),
         departure_time      |-> optimized[i].dep_time,
         arrival_stop        |-> optimized[i].arr_stop,
         arrival_stop_name   |-> get_stop_name(optimized[i].arr_stop),
         arrival_time        |-> optimized[i].arr_time,
         wait_time           |-> WaitTime(optimized, i)]]

\* <<>> stands for both None and an empty list ("if not route_segments")
reconstruct_route_from_label(heap, end_label) ==
    LET connections_list == ConnectionsList(heap, end_label)
    IN  IF connections_list = <<>> THEN <<>>
        ELSE RouteSegments(OptimizedConnections(connections_list))

----------------------------------------------------------------------------
(* route_calculator.py: recovery of _find_multiple_routes *)

RouteHash(route_segments) ==
    [i \in 1 .. Len(route_segments) |->
        <<route_segments[i].departure_stop, route_segments[i].arrival_stop,
          route_segments[i].departure_time, route_segments[i].arrival_time>>]

\* all_end_labels[:max_routes]
Candidates(sorted_end_labels, max_routes) ==
    SubSeq(sorted_end_labels, 1,
           IF Len(sorted_end_labels) < max_routes
           THEN Len(sorted_end_labels) ELSE max_routes)

\* mutant: no route counts as already seen
NeverSeen(route_hash, seen_hashes) == FALSE

\* whether the route of a candidate is skipped as already seen
SeenBefore(route_hash, seen_hashes) == route_hash \in seen_hashes

\* the loop over the candidates; acc holds routes, their chains and seen_hashes
RECURSIVE RecoverLoop(_, _, _, _, _)
RecoverLoop(heap, cands, i, max_routes, acc) ==
    IF i > Len(cands) THEN acc
    ELSE LET route_segments == reconstruct_route_from_label(heap, cands[i])
         IN  IF route_segments = <<>>
             THEN RecoverLoop(heap, cands, i + 1, max_routes, acc)
             ELSE IF SeenBefore(RouteHash(route_segments), acc.seen_hashes)
             THEN RecoverLoop(heap, cands, i + 1, max_routes, acc)
             ELSE LET acc2 ==
                          [routes |-> Append(acc.routes, route_segments),
                           chains |-> Append(acc.chains,
                                             ConnectionsList(heap, cands[i])),
                           seen_hashes |-> acc.seen_hashes
                                               \cup {RouteHash(route_segments)}]
                  IN  IF Len(acc2.routes) >= max_routes THEN acc2
                      ELSE RecoverLoop(heap, cands, i + 1, max_routes, acc2)

\* mutant: the end labels are sorted latest arrival first
DescendingEndLabels(st, end_ids) ==
    Reverse(SortByArrival(st.heap, EndLabels(st, end_ids)))

\* all_end_labels.sort(key=arrival_time)
SortedEndLabels(st, end_ids) == SortByArrival(st.heap, EndLabels(st, end_ids))

RecoverRoutes(st, max_routes, end_ids) ==
    LET all_end_labels == EndLabels(st, end_ids)
        empty == [routes |-> <<>>, chains |-> <<>>, seen_hashes |-> {}]
    IN  IF all_end_labels = <<>> THEN empty
        ELSE RecoverLoop(st.heap,
                         Candidates(SortedEndLabels(st, end_ids), max_routes),
                         1, max_routes, empty)

\* the label store when the scan loop has ended
ScanResult(connections, start_time_sec, max_routes, start_ids, end_ids) ==
    ScanFrom(InitLabels(start_ids, start_time_sec), connections, 1,
             max_routes, end_ids)

find_multiple_routes(connections, start_stop, end_stop, start_time_sec, max_routes, start_stop_ids, end_stop_ids) ==
    LET effective_start_ids ==
            IF start_stop_ids # <<>> THEN start_stop_ids ELSE <<start_stop>>
        effective_end_ids ==
            IF end_stop_ids # <<>> THEN end_stop_ids ELSE <<end_stop>>
    IN  RecoverRoutes(ScanResult(connections, start_time_sec, max_routes,
                                 effective_start_ids, effective_end_ids),
                      max_routes, effective_end_ids)

----------------------------------------------------------------------------
(* route_calculator.py: find_route_by_ids *)

\* mutant: the end stop is not expanded to its station
EndIdOnly(end_id) == <<end_id>>

\* set(expand_station_stop_ids(end_id)), listed in its iteration order
EndIdSet(end_id) ==
    LET members == Range(expand_station_stop_ids(end_id))
    IN  SelectSeq(hash_order, LAMBDA x : x \in members)
            \o SelectSeq(expand_station_stop_ids(end_id),
                         LAMBDA x : x \notin Range(hash_order))

\* the value returned and the memo afterwards
find_route_by_ids(cache, q) ==
    IF q.start_id = q.end_id
    THEN [routes |-> <<>>, chains |-> <<>>, cache |-> cache]
    ELSE LET gv == get_valid_services(cache, q.date)
             connections == build_connections(gv.valid, q.start_time_sec)
             found == find_multiple_routes(connections, q.start_id, q.end_id,
                          q.start_time_sec, q.max_routes,
                          expand_station_stop_ids(q.start_id),
                          EndIdSet(q.end_id))
         IN  [routes |-> found.routes, chains |-> found.chains, cache |-> gv.cache]

----------------------------------------------------------------------------
(* The feeds and queries explored *)

StopsFile ==
    << [stop_id |-> "A",  stop_name |-> "Aarau", parent_station |-> ""],
       [stop_id |-> "B",  stop_name |-> "Bern",  parent_station |-> ""],
       [stop_id |-> "B1", stop_name |-> "Bern",  parent_station |-> "B"],
       [stop_id |-> "C",  stop_name |-> "Chur",  parent_station |-> ""] >>

PathsT1 == {<<"A", "C", "B1">>, <<"A", "B1", "C">>, <<"B", "A", "B1">>, <<"A", "B1">>}
PathsT2 == {<<"A", "B1">>, <<"C", "B">>, <<"A", "C">>}

\* The rows of one trip: it leaves its first stop at time d and reaches the
\* next stop one unit later each; row bad (if any) has an unparseable
\* departure_time, which the loader reads as 0.
TripRows(trip_id, path, d, bad) ==
    [i \in 1 .. Len(path) |->
        [trip_id |-> trip_id, stop_sequence |-> i, stop_id |-> path[i],
         arrival_time_sec |-> d + i - 1,
         departure_time_sec |-> IF i = bad THEN 0 ELSE d + i - 1]]

\* variants of the second trip's rows: as is, last departure unparseable,
\* or its first row repeated at the end of the file
VariantRows(trip_id, path, d, variant) ==
    IF variant = "bad_last" THEN TripRows(trip_id, path, d, Len(path))
    ELSE IF variant = "dup"
    THEN TripRows(trip_id, path, d, 0) \o <<TripRows(trip_id, path, d, 0)[1]>>
    ELSE TripRows(trip_id, path, d, 0)

Calendar ==
    [s \in Services |->
        [start_date |-> 1, end_date |-> 2,
         weekdays |-> IF s = "S1" THEN {1, 2} ELSE {2}]]

ExceptionRows == {<<>>, << <<"S1", 2>>, <<"S2", 2>> >>}

QueryPairs == {<<"A", "B">>, <<"A", "C">>, <<"B", "B1">>, <<"A", "A">>}

Perms(S) ==
    {f \in [1 .. Cardinality(S) -> S] : \A i, j \in DOMAIN f : f[i] = f[j] => i = j}

Init ==
    /\ stops = StopsFile
    /\ trip_to_service = [t \in Range(TripIds) |-> IF t = "T1" THEN "S1" ELSE "S2"]
    /\ calendar = Calendar
    /\ \E e \in ExceptionRows :
           calendar_dates = [d \in Dates |-> IF d = 2 THEN e ELSE <<>>]
    /\ \E p1 \in PathsT1, d1 \in 0 .. MaxDep, b1 \in {0, 2, 3},
          p2 \in PathsT2, d2 \in 0 .. MaxDep, v2 \in {"ok", "bad_last", "dup"} :
           stop_times = TripRows("T1", p1, d1, b1) \o VariantRows("T2", p2, d2, v2)
    /\ service_cache = [d \in Dates |-> NoEntry]
    /\ \E pr \in QueryPairs, date \in Dates, k \in 1 .. MaxRoutes :
           query = [start_id |-> pr[1], end_id |-> pr[2], date |-> date,
                    start_time_sec |-> 1, max_routes |-> k]
    /\ hash_order \in Perms(Range(expand_station_stop_ids(query.end_id)))
    /\ runs = 0
    /\ routes = <<>>
    /\ prev_routes = <<>>
    /\ chains = <<>>
    /\ AuxIdle

\* the caller runs the query
RunQuery ==
    /\ runs < MaxRuns
    /\ LET r == find_route_by_ids(service_cache, query)
       IN  /\ routes' = r.routes
           /\ chains' = r.chains
           /\ service_cache' = r.cache
    /\ prev_routes' = routes
    /\ runs' = runs + 1
    /\ UNCHANGED <<planner_vars, query, hash_order, aux_vars>>

Next == RunQuery

Spec == Init /\ [][Next]_vars

----------------------------------------------------------------------------
(* Quantities of the query under study, derived from the state *)

ActiveServices == ComputeValidServices(query.date)

QueryConnections == build_connections(ActiveServices, query.start_time_sec)

StartIds == expand_station_stop_ids(query.start_id)

EndIds == EndIdSet(query.end_id)

\* the label store at the end of the query's scan
QueryScan ==
    ScanResult(QueryConnections, query.start_time_sec, query.max_routes,
               StartIds, EndIds)

LastSegment(route) == route[Len(route)]

StationOf(stop_id) ==
    IF StopToParent(stop_id) # "" THEN StopToParent(stop_id) ELSE stop_id

\* The timetable's connections on the query date: every pair of rows adjacent
\* in the complete stop_sequence order of an active trip, arriving after it
\* leaves, leaving at or after t_start.
TimetableConnections ==
    {c \in Range(PairWithNext(SortTripStops(MergeTripStops(ActiveServices)))) :
        c.arr_time > c.dep_time /\ c.dep_time >= query.start_time_sec}

\* stops and times reachable from the start stops over a set of connections
RECURSIVE ReachedOver(_, _)
ReachedOver(conns, reached) ==
    LET more == {<<c.arr_stop, c.arr_time>> :
                    c \in {x \in conns : \E r \in reached :
                              r[1] = x.dep_stop /\ r[2] <= x.dep_time}}
    IN  IF more \subseteq reached THEN reached
        ELSE ReachedOver(conns, reached \cup more)

\* final alight times of the journeys over conns from the start stops to the
\* end stops (a journey rides at least one connection)
JourneyArrivals(conns) ==
    LET reached == ReachedOver(conns,
                       {<<s, query.start_time_sec>> : s \in Range(StartIds)})
    IN  {c.arr_time : c \in {x \in conns :
            /\ x.arr_stop \in Range(expand_station_stop_ids(query.end_id))
            /\ \E r \in reached : r[1] = x.dep_stop /\ r[2] <= x.dep_time}}

----------------------------------------------------------------------------
(* Claims about the query result *)

\* C1: whenever the query returns an itinerary, the first one alights no
\* later than every feasible journey over the timetable's connections that
\* leaves a start stop at or after t_start and reaches an end stop.
C1_EarliestArrivalDominance ==
    (runs >= 1 /\ routes # <<>>) =>
        \A a \in JourneyArrivals(TimetableConnections) :
            LastSegment(routes[1]).arrival_time <= a

\* C2: in every returned itinerary each segment arrives after it departs and
\* each later segment departs no earlier than the segment before it arrives.
C2_TimeMonotonicity ==
    \A r \in 1 .. Len(routes) :
        /\ \A i \in 1 .. Len(routes[r]) :
               routes[r][i].arrival_time > routes[r][i].departure_time
        /\ \A i \in 1 .. Len(routes[r]) - 1 :
               routes[r][i + 1].departure_time >= routes[r][i].arrival_time

\* C2 witness: an itinerary with a change of trip and a positive wait.
C2_Witness ==
    /\ runs >= 1
    /\ \E r \in 1 .. Len(routes) :
           Len(routes[r]) >= 2 /\ routes[r][2].wait_time > 0

\* C3: every segment and every connection of a returned itinerary rides a
\* trip whose service is active on the query date, and with no active
\* service the query returns nothing.
C3_ServiceValidity ==
    runs >= 1 =>
        /\ \A r \in 1 .. Len(routes) :
               /\ \A i \in 1 .. Len(routes[r]) :
                      trip_to_service[routes[r][i].trip_id] \in ActiveServices
               /\ \A i \in 1 .. Len(chains[r]) :
                      trip_to_service[chains[r][i].trip_id] \in ActiveServices
        /\ (ActiveServices = {} => routes = <<>>)

\* C3 witness: an itinerary is returned on a date on which a trip of the
\* feed that leaves a start stop in time is not active.
C3_Witness ==
    /\ runs >= 1
    /\ routes # <<>>
    /\ \E i \in 1 .. Len(stop_times) :
           /\ trip_to_service[stop_times[i].trip_id] \notin ActiveServices
           /\ stop_times[i].stop_id \in Range(StartIds)
           /\ stop_times[i].departure_time_sec >= query.start_time_sec

\* the maximal runs of consecutive connections of one trip in a chain, each
\* as the pair of its first and last position
TripRuns(chain) ==
    {<<a, b>> \in (1 .. Len(chain)) \X (1 .. Len(chain)) :
        /\ a <= b
        /\ \A k \in a .. b : chain[k].trip_id = chain[a].trip_id
        /\ (a > 1 => chain[a - 1].trip_id # chain[a].trip_id)
        /\ (b < Len(chain) => chain[b + 1].trip_id # chain[b].trip_id)}

\* C4: no two adjacent segments of a returned itinerary ride the same trip:
\* its segments are exactly the maximal same-trip runs of its chain, each
\* from the run's first board stop and time to its last alight stop and time.
C4_Merging ==
    \A r \in 1 .. Len(routes) :
        /\ \A i \in 1 .. Len(routes[r]) - 1 :
               routes[r][i].trip_id # routes[r][i + 1].trip_id
        /\ Len(routes[r]) = Cardinality(TripRuns(chains[r]))
        /\ \A i \in 1 .. Len(routes[r]) :
               \E run \in TripRuns(chains[r]) :
                   /\ Cardinality({x \in TripRuns(chains[r]) : x[1] <= run[1]}) = i
                   /\ routes[r][i].trip_id = chains[r][run[1]].trip_id
                   /\ routes[r][i].departure_stop = chains[r][run[1]].dep_stop
                   /\ routes[r][i].departure_time = chains[r][run[1]].dep_time
                   /\ routes[r][i].arrival_stop = chains[r][run[2]].arr_stop
                   /\ routes[r][i].arrival_time = chains[r][run[2]].arr_time

\* C4 witness: an itinerary one of whose segments collapses two connections.
C4_Witness ==
    /\ runs >= 1
    /\ \E r \in 1 .. Len(routes) : Len(chains[r]) > Len(routes[r])

\* C5: no two itineraries of one result have the same sequence of
\* (departure_stop, arrival_stop, departure_time, arrival_time).
C5_Distinctness ==
    \A i, j \in 1 .. Len(routes) :
        i # j => RouteHash(routes[i]) # RouteHash(routes[j])

\* the end labels the recovery loop looks at
QueryCandidates ==
    Candidates(SortedEndLabels(QueryScan, EndIds), query.max_routes)

\* C5 witness: two of the end labels looked at reconstruct to the same
\* sequence, and the result still holds it once.
C5_Witness ==
    /\ runs >= 1
    /\ routes # <<>>
    /\ \E i, j \in 1 .. Len(QueryCandidates) :
           /\ i < j
           /\ reconstruct_route_from_label(QueryScan.heap, QueryCandidates[i]) # <<>>
           /\ RouteHash(reconstruct_route_from_label(QueryScan.heap, QueryCandidates[i]))
                = RouteHash(reconstruct_route_from_label(QueryScan.heap, QueryCandidates[j]))

\* C6: the second run of a query on the same planner returns what the first
\* run returned.
C6_Idempotence == runs >= 2 => routes = prev_routes

\* C6 witness: the query ran twice, the second time on the memo filled by
\* the first, and returned an itinerary.
C6_Witness ==
    /\ runs = 2
    /\ service_cache[query.date] # NoEntry
    /\ routes # <<>>

\* C7: a query returns at most K itineraries, in order of non-decreasing
\* final alight time.
C7_ResultShape ==
    /\ Len(routes) <= query.max_routes
    /\ \A i \in 1 .. Len(routes) - 1 :
           LastSegment(routes[i]).arrival_time <= LastSegment(routes[i + 1]).arrival_time

\* C7 witness: two itineraries are returned, the second alighting later.
C7_Witness ==
    /\ runs >= 1
    /\ Len(routes) >= 2
    /\ LastSegment(routes[1]).arrival_time < LastSegment(routes[2]).arrival_time

\* C9: sentinel labels stand on every stop of expand(start_id); every
\* returned itinerary boards first at a stop of expand(start_id) at or after
\* t_start and alights last at a stop of expand(end_id); and when the two
\* stations differ, reaching any stop of expand(end_id) over the query's
\* connections yields an itinerary.
C9_EndpointEquivalence ==
    runs >= 1 =>
        /\ LET st == InitLabels(StartIds, query.start_time_sec)
           IN  \A s \in Range(StartIds) :
                   \E k \in Range(st.labels_by_stop[s]) :
                       /\ st.heap[k].prev = NoLabel
                       /\ st.heap[k].arrival_time = query.start_time_sec
        /\ \A r \in 1 .. Len(routes) :
               /\ routes[r][1].departure_stop \in Range(StartIds)
               /\ routes[r][1].departure_time >= query.start_time_sec
               /\ LastSegment(routes[r]).arrival_stop
                      \in Range(expand_station_stop_ids(query.end_id))
        /\ (/\ StationOf(query.start_id) # StationOf(query.end_id)
            /\ JourneyArrivals(Range(QueryConnections)) # {})
               => routes # <<>>

\* C9 witness: the destination is given as a station id and the itinerary
\* returned alights at one of its platforms.
C9_Witness ==
    /\ runs >= 1
    /\ routes # <<>>
    /\ StopToParent(query.end_id) = ""
    /\ LastSegment(routes[1]).arrival_stop # query.end_id
    /\ StopToParent(LastSegment(routes[1]).arrival_stop) = query.end_id

\* C10: a query whose start and end stops belong to the same station returns
\* no itinerary, for every K.
C10_SameStationEmpty ==
    (runs >= 1 /\ StationOf(query.start_id) = StationOf(query.end_id))
        => routes = <<>>

----------------------------------------------------------------------------
(* The calendar resolver on its own: get_valid_services called for any date *)

CalendarRows ==
    {[start_date |-> a, end_date |-> 2, weekdays |-> w] :
        a \in Dates, w \in {{1, 2}, {2}, {}}}

ExceptionLists ==
    UNION {[1 .. n -> Services \X {1, 2}] : n \in 0 .. MaxExceptions}

InitCal ==
    /\ stops = StopsFile
    /\ stop_times = <<>>
    /\ trip_to_service = [t \in Range(TripIds) |-> IF t = "T1" THEN "S1" ELSE "S2"]
    /\ calendar \in [Services -> CalendarRows]
    /\ calendar_dates \in [Dates -> ExceptionLists]
    /\ service_cache = [d \in Dates |-> NoEntry]
    /\ query = [start_id |-> "A", end_id |-> "A", date |-> 1,
                start_time_sec |-> 1, max_routes |-> 1]
    /\ hash_order = <<"A">>
    /\ runs = 0
    /\ routes = <<>>
    /\ prev_routes = <<>>
    /\ chains = <<>>
    /\ AuxIdle

GetValidServices(date_obj) ==
    /\ service_cache' = get_valid_services(service_cache, date_obj).cache
    /\ UNCHANGED <<planner_vars, query_vars, aux_vars>>

NextCal == \E d \in Dates : GetValidServices(d)

SpecCal == InitCal /\ [][NextCal]_vars

ExceptionAdds(date_obj) ==
    {r[1] : r \in {x \in Range(calendar_dates[date_obj]) : x[2] = 1}}

ExceptionRemoves(date_obj) ==
    {r[1] : r \in {x \in Range(calendar_dates[date_obj]) : x[2] = 2}}

\* C8: for every date resolved, the memoized set, which is also what
\* get_valid_services returns, equals (regular services of the date) union
\* (services added on the date) minus (services removed on the date),
\* whatever the order of the exception rows.
C8_ActiveServicesFormula ==
    \A d \in Dates :
        service_cache[d] # NoEntry =>
            /\ service_cache[d][1]
                   = (RegularServices(d) \cup ExceptionAdds(d)) \ ExceptionRemoves(d)
            /\ get_valid_services(service_cache, d).valid = service_cache[d][1]

----------------------------------------------------------------------------
(* Claims about the connection builder *)

\* the connections between rows adjacent in the complete stop_sequence order
\* of an active trip, whatever their times
AdjacentPairs ==
    Range(PairWithNext(SortTripStops(MergeTripStops(ActiveServices))))

\* the query has run and went on to _build_connections
BuilderRan == runs >= 1 /\ query.start_id # query.end_id

\* C19: every connection the builder emits for the query joins two
\* stop_times rows of one trip that are adjacent in the trip's complete
\* stop_sequence order, also when a row of the trip has a departure time
\* that parsed to a value below t_start.
C19_NoHopSkipping ==
    BuilderRan => Range(QueryConnections) \subseteq AdjacentPairs

\* C20: for every adjacent pair (i, i+1) of rows of an active trip with
\* departure_sec[i] >= t_start and arrival_sec[i+1] > departure_sec[i], the
\* builder emits the connection of the pair, whatever departure_sec[i+1] is.
C20_ConnectionCompleteness ==
    BuilderRan =>
        \A c \in AdjacentPairs :
            (c.dep_time >= query.start_time_sec /\ c.arr_time > c.dep_time)
                => c \in Range(QueryConnections)

----------------------------------------------------------------------------
(* Character strings, where a method looks inside them: a string is the   *)
(* sequence of its characters, each a one-character string.               *)

\* the code point of a character, as the comparison of str values uses it
Ord(ch) ==
    CASE ch = " " -> 32
      [] ch = "-" -> 45
      [] ch = "." -> 46
      [] ch = "0" -> 48
      [] ch = "1" -> 49
      [] ch = "2" -> 50
      [] ch = "3" -> 51
      [] ch = "4" -> 52
      [] ch = "5" -> 53
      [] ch = "6" -> 54
      [] ch = "7" -> 55
      [] ch = "8" -> 56
      [] ch = "9" -> 57
      [] ch = ":" -> 58
      [] ch = "A" -> 65
      [] ch = "B" -> 66
      [] ch = "C" -> 67
      [] ch = "a" -> 97
      [] ch = "b" -> 98
      [] ch = "c" -> 99
      [] ch = "x" -> 120

\* str.casefold of one character
CasefoldChar(ch) ==
    CASE ch = "A" -> "a"
      [] ch = "B" -> "b"
      [] ch = "C" -> "c"
      [] OTHER -> ch

casefold(s) == [i \in 1 .. Len(s) |-> CasefoldChar(s[i])]

\* str.strip(): leading and trailing white space removed
RECURSIVE strip(_)
strip(s) ==
    IF s = <<>> THEN s
    ELSE IF Head(s) = " " THEN strip(Tail(s))
    ELSE IF s[Len(s)] = " " THEN strip(SubSeq(s, 1, Len(s) - 1))
    ELSE s

\* str.startswith
startswith(s, prefix) ==
    Len(prefix) <= Len(s) /\ SubSeq(s, 1, Len(prefix)) = prefix

\* a < b for str values: by code point, a proper prefix first
RECURSIVE StrLess(_, _)
StrLess(a, b) ==
    IF b = <<>> THEN FALSE
    ELSE IF a = <<>> THEN TRUE
    ELSE IF Ord(Head(a)) # Ord(Head(b)) THEN Ord(Head(a)) < Ord(Head(b))
    ELSE StrLess(Tail(a), Tail(b))

\* list.sort() of a list of str values
SortStrings(names) ==
    SortByKey(names,
        [i \in 1 .. Len(names) |->
            Cardinality({j \in 1 .. Len(names) : StrLess(names[j], names[i])})])

----------------------------------------------------------------------------
(* data_loader.py: name resolution *)

normalize_name(value) == casefold(strip(value))

\* mutant: one pass that returns the first stop matching exactly or by prefix
find_stop_id_one_pass(stop_name) ==
    LET needle == normalize_name(stop_name)
        hits == SelectIdx([i \in 1 .. Len(stops) |->
                    startswith(normalize_name(stops[i].stop_name), needle)])
    IN  IF needle = <<>> THEN <<>>
        ELSE IF hits # <<>> THEN <<stops[hits[1]].stop_id>>
        ELSE <<>>

\* find_stop_id: <<stop_id>>, or <<>> for None
find_stop_id(stop_name) ==
    LET needle == normalize_name(stop_name)
        exact == SelectIdx([i \in 1 .. Len(stops) |->
                     normalize_name(stops[i].stop_name) = needle])
        starts == SelectIdx([i \in 1 .. Len(stops) |->
                      startswith(normalize_name(stops[i].stop_name), needle)])
    IN  IF needle = <<>> THEN <<>>
        ELSE IF exact # <<>> THEN <<stops[exact[1]].stop_id>>
        ELSE IF starts # <<>> THEN <<stops[starts[1]].stop_id>>
        ELSE <<>>

\* find_matching_stops: the list of display names
find_matching_stops(stop_name) ==
    LET needle == normalize_name(stop_name)
        exact_ix == SelectIdx([i \in 1 .. Len(stops) |->
                        normalize_name(stops[i].stop_name) = needle])
        starts_ix == SelectIdx([i \in 1 .. Len(stops) |->
                         /\ normalize_name(stops[i].stop_name) # needle
                         /\ startswith(normalize_name(stops[i].stop_name), needle)])
        exact == [k \in 1 .. Len(exact_ix) |-> stops[exact_ix[k]].stop_name]
        starts == [k \in 1 .. Len(starts_ix) |-> stops[starts_ix[k]].stop_name]
    IN  IF needle = <<>> THEN <<>>
        ELSE Uniq(exact \o SortStrings(starts))

----------------------------------------------------------------------------
(* Name resolution on its own: the planner of a stops.txt whose rows carry *)
(* any of a few names, asked to resolve any of a few queries               *)

MaxStops == 3

\* stop_name values as _load_stops stores them (stripped)
StopNames ==
    {<<>>, <<"a">>, <<"A">>, <<"a", "a">>, <<"A", "b">>, <<"b">>}

\* names as a caller may type them
QueryNames ==
    {<<>>, <<" ">>, <<"a">>, <<"A", " ">>, <<" ", "a", "b">>, <<"b">>,
     <<"a", "a", "a">>}

RowIds == <<"A", "B", "C", "D">>

NamedStopsFiles ==
    {[i \in 1 .. MaxStops |->
         [stop_id |-> RowIds[i], stop_name |-> f[i], parent_station |-> ""]] :
        f \in [1 .. MaxStops -> StopNames]}

\* a planner with no timetable and no query
IdlePlanner ==
    /\ stop_times = <<>>
    /\ trip_to_service = [t \in Range(TripIds) |-> IF t = "T1" THEN "S1" ELSE "S2"]
    /\ calendar = Calendar
    /\ calendar_dates = [d \in Dates |-> <<>>]
    /\ service_cache = [d \in Dates |-> NoEntry]
    /\ query = [start_id |-> "A", end_id |-> "A", date |-> 1,
                start_time_sec |-> 1, max_routes |-> 1]
    /\ hash_order = <<"A">>
    /\ runs = 0
    /\ routes = <<>>
    /\ prev_routes = <<>>
    /\ chains = <<>>

InitNames ==
    /\ stops \in NamedStopsFiles
    /\ IdlePlanner
    /\ AuxIdle

FindStopId(stop_name) ==
    /\ call' = [op |-> "find_stop_id", arg |-> stop_name,
                ret |-> find_stop_id(stop_name)]
    /\ UNCHANGED <<planner_vars, service_cache, query_vars,
                   feed, threads, scan, cancel_requested>>

FindMatchingStops(stop_name) ==
    /\ call' = [op |-> "find_matching_stops", arg |-> stop_name,
                ret |-> find_matching_stops(stop_name)]
    /\ UNCHANGED <<planner_vars, service_cache, query_vars,
                   feed, threads, scan, cancel_requested>>

NextNames ==
    \E stop_name \in QueryNames :
        FindStopId(stop_name) \/ FindMatchingStops(stop_name)

SpecNames == InitNames /\ [][NextNames]_vars

\* the rows whose normalized name equals, or starts with, a normalized query
ExactRows(q) ==
    {i \in 1 .. Len(stops) : normalize_name(stops[i].stop_name) = q}

PrefixRows(q) ==
    {i \in 1 .. Len(stops) : startswith(normalize_name(stops[i].stop_name), q)}

FirstRow(rows) == CHOOSE i \in rows : \A j \in rows : i <= j

\* C13: find_stop_id returns the first stop in file order whose normalized
\* name equals the normalized query; only if there is none, the first stop
\* in file order whose normalized name starts with it; otherwise no stop; an
\* empty or whitespace-only query matches no stop.
C13_ResolveExact ==
    call.op = "find_stop_id" =>
        LET q == normalize_name(call.arg)
        IN  /\ (\A k \in 1 .. Len(call.arg) : call.arg[k] = " ") => call.ret = <<>>
            /\ (q # <<>> /\ ExactRows(q) # {})
                   => call.ret = <<stops[FirstRow(ExactRows(q))].stop_id>>
            /\ (q # <<>> /\ ExactRows(q) = {} /\ PrefixRows(q) # {})
                   => call.ret = <<stops[FirstRow(PrefixRows(q))].stop_id>>
            /\ (q # <<>> /\ PrefixRows(q) = {}) => call.ret = <<>>

\* C13 witness: the stop returned matches exactly and stands in the file
\* after a stop that matches by prefix only.
C13_Witness ==
    /\ call.op = "find_stop_id"
    /\ call.ret # <<>>
    /\ LET q == normalize_name(call.arg)
       IN  /\ ExactRows(q) # {}
           /\ \E i \in PrefixRows(q) \ ExactRows(q) : i < FirstRow(ExactRows(q))

\* a <= b in the order of normalized names
NormLeq(a, b) == ~StrLess(normalize_name(b), normalize_name(a))

\* C14: find_matching_stops returns, without duplicate display names, the
\* names of all stops whose normalized name equals or starts with the
\* normalized query, all exact matches before all prefix-only matches, and
\* the prefix-only matches ascending by normalized name.
C14_MatchPrefix ==
    call.op = "find_matching_stops" =>
        LET q == normalize_name(call.arg)
            ret == call.ret
            IsExact(n) == normalize_name(n) = q
        IN  /\ \A i, j \in 1 .. Len(ret) : ret[i] = ret[j] => i = j
            /\ Range(ret) = IF q = <<>> THEN {}
                            ELSE {stops[i].stop_name : i \in PrefixRows(q)}
            /\ \A i, j \in 1 .. Len(ret) :
                   (i < j /\ IsExact(ret[j])) => IsExact(ret[i])
            /\ \A i, j \in 1 .. Len(ret) :
                   (i < j /\ ~IsExact(ret[i]) /\ ~IsExact(ret[j]))
                       => NormLeq(ret[i], ret[j])

----------------------------------------------------------------------------
(* Station topology on its own: the planner of a stops.txt whose rows name *)
(* any parents, asked to expand any stop id                                *)

TopoIds == {"A", "B", "B1", "B2"}

TopoParents == {"", "A", "B", "Z"}

\* stops.txt files of MaxStops rows; a stop id that is listed twice has the
\* same parent_station in both rows
TopoStopsFiles ==
    {f \in [1 .. MaxStops ->
                [stop_id : TopoIds, stop_name : {<<>>}, parent_station : TopoParents]] :
        \A i, j \in 1 .. MaxStops :
            f[i].stop_id = f[j].stop_id => f[i].parent_station = f[j].parent_station}

InitTopo ==
    /\ stops \in TopoStopsFiles
    /\ IdlePlanner
    /\ AuxIdle

ExpandStationStopIds(stop_id) ==
    /\ call' = [op |-> "expand_station_stop_ids", arg |-> stop_id,
                ret |-> expand_station_stop_ids(stop_id)]
    /\ UNCHANGED <<planner_vars, service_cache, query_vars,
                   feed, threads, scan, cancel_requested>>

NextTopo == \E stop_id \in TopoIds \cup {"Z", ""} : ExpandStationStopIds(stop_id)

SpecTopo == InitTopo /\ [][NextTopo]_vars

\* platforms never chain: no stop named as a parent has a parent itself
NoChain ==
    \A i \in 1 .. Len(stops) :
        stops[i].parent_station # ""
            => StopToParent(stops[i].parent_station) = ""

\* the first row of stops.txt that lists stop x
FirstRowOf(x) == FirstRow({i \in 1 .. Len(stops) : stops[i].stop_id = x})

----------------------------------------------------------------------------
(* Numbers and clock strings *)

IsDigit(ch) == ch \in {"0", "1", "2", "3", "4", "5", "6", "7", "8", "9"}

RECURSIVE DigitsValue(_)
DigitsValue(ds) ==
    IF ds = <<>> THEN 0
    ELSE DigitsValue(SubSeq(ds, 1, Len(ds) - 1)) * 10 + (Ord(ds[Len(ds)]) - Ord("0"))

\* str.split(sep) for a one-character separator
RECURSIVE split(_, _)
split(s, sep) ==
    LET at == {i \in 1 .. Len(s) : s[i] = sep}
    IN  IF at = {} THEN <<s>>
        ELSE LET p == CHOOSE i \in at : \A j \in at : i <= j
             IN  <<SubSeq(s, 1, p - 1)>> \o split(SubSeq(s, p + 1, Len(s)), sep)

\* int(text): <<n>>, or <<>> where int raises ValueError. White space around
\* the number and one sign are accepted.
int_of(text) ==
    LET t == strip(text)
        signed == t # <<>> /\ Head(t) \in {"+", "-"}
        ds == IF signed THEN Tail(t) ELSE t
    IN  IF ds = <<>> \/ \E i \in 1 .. Len(ds) : ~IsDigit(ds[i]) THEN <<>>
        ELSE IF signed /\ Head(t) = "-" THEN <<0 - DigitsValue(ds)>>
        ELSE <<DigitsValue(ds)>>

\* mutant: the seconds are reduced to the time of day
parse_gtfs_time_wrapping(value) ==
    LET parts == split(strip(value), ":")
        hours == int_of(parts[1])
        minutes == int_of(parts[2])
        seconds == IF Len(parts) >= 3 /\ parts[3] # <<>> THEN int_of(parts[3]) ELSE <<0>>
    IN  IF strip(value) = <<>> THEN 0
        ELSE IF Len(parts) < 2 THEN 0
        ELSE IF hours = <<>> \/ minutes = <<>> \/ seconds = <<>> THEN 0
        ELSE (hours[1] * 3600 + minutes[1] * 60 + seconds[1]) % 86400

\* GTFSDataLoader._parse_gtfs_time_to_seconds
parse_gtfs_time_to_seconds(value) ==
    LET parts == split(strip(value), ":")
        hours == int_of(parts[1])
        minutes == int_of(parts[2])
        seconds == IF Len(parts) >= 3 /\ parts[3] # <<>> THEN int_of(parts[3]) ELSE <<0>>
    IN  IF strip(value) = <<>> THEN 0
        ELSE IF Len(parts) < 2 THEN 0
        ELSE IF hours = <<>> \/ minutes = <<>> \/ seconds = <<>> THEN 0
        ELSE hours[1] * 3600 + minutes[1] * 60 + seconds[1]

\* RouteCalculator.time_to_seconds
time_to_seconds(time_str) ==
    LET parts == split(time_str, ":")
        hours == int_of(parts[1])
        minutes == int_of(parts[2])
        seconds == IF Len(parts) > 2 THEN int_of(parts[3]) ELSE <<0>>
    IN  IF time_str = <<>> THEN 0
        ELSE IF Len(parts) < 2 THEN 0
        ELSE IF hours = <<>> \/ minutes = <<>> \/ seconds = <<>> THEN 0
        ELSE hours[1] * 3600 + minutes[1] * 60 + seconds[1]

\* str(n) for n >= 0
RECURSIVE DigitsOf(_)
DigitsOf(n) ==
    LET last == <<CHOOSE ch \in {"0", "1", "2", "3", "4", "5", "6", "7", "8", "9"} :
                     Ord(ch) - Ord("0") = n % 10>>
    IN  IF n < 10 THEN last ELSE DigitsOf(n \div 10) \o last

\* format(n, "02d")
Format02d(n) ==
    IF n < 0 THEN <<"-">> \o DigitsOf(0 - n)
    ELSE IF n < 10 THEN <<"0">> \o DigitsOf(n)
    ELSE DigitsOf(n)

\* RouteCalculator.seconds_to_time
seconds_to_time(seconds) ==
    LET hours == seconds \div 3600
        minutes == (seconds % 3600) \div 60
    IN  Format02d(hours) \o <<":">> \o Format02d(minutes)

----------------------------------------------------------------------------
(* Dates: a datetime is kept as its day number, which for the dates of     *)
(* January 2024 that the feeds and queries name is the day of the month.   *)

DaysInMonth(y, m) ==
    IF m = 2 THEN (IF y % 4 = 0 THEN 29 ELSE 28)
    ELSE IF m \in {4, 6, 9, 11} THEN 30 ELSE 31

DayNumber(y, m, d) == (y - 2024) * 372 + (m - 1) * 31 + d

AllDigits(text) == \A i \in 1 .. Len(text) : IsDigit(text[i])

\* the datetime of year, month and day fields: <<day number>>, or <<>> for ValueError
DateOfFields(yy, mm, dd) ==
    IF ~(AllDigits(yy) /\ AllDigits(mm) /\ AllDigits(dd)) THEN <<>>
    ELSE IF Len(yy) # 4 \/ Len(mm) \notin {1, 2} \/ Len(dd) \notin {1, 2} THEN <<>>
    ELSE LET y == DigitsValue(yy)
             m == DigitsValue(mm)
             d == DigitsValue(dd)
         IN  IF m < 1 \/ m > 12 \/ d < 1 THEN <<>>
             ELSE IF d > DaysInMonth(y, m) THEN <<>>
             ELSE <<DayNumber(y, m, d)>>

\* datetime.strptime(text, "%Y%m%d") for a text of eight characters
strptime_compact(text) ==
    IF Len(text) # 8 THEN <<>>
    ELSE DateOfFields(SubSeq(text, 1, 4), SubSeq(text, 5, 6), SubSeq(text, 7, 8))

\* datetime.strptime(text, "%Y-%m-%d")
strptime_dashed(text) ==
    LET parts == split(text, "-")
    IN  IF Len(parts) # 3 THEN <<>>
        ELSE DateOfFields(parts[1], parts[2], parts[3])

\* date_obj.strftime("%Y%m%d") for the days of January 2024
strftime_compact(date_obj) == <<"2", "0", "2", "4", "0", "1">> \o Format02d(date_obj)

----------------------------------------------------------------------------
(* data_loader.py: _load_data. A file of data_dir is a record: whether it  *)
(* exists and its rows, each row a function from the columns of the header *)
(* to the cell. Ids are atoms; names, numbers, dates and times are texts.  *)

\* (row.get(col) or "") for an id column, and for a text column
GetId(row, col) == IF col \in DOMAIN row THEN row[col] ELSE ""

GetText(row, col) == IF col \in DOMAIN row THEN strip(row[col]) ELSE <<>>

load_stops(file) ==
    LET kept == SelectSeq(file.rows, LAMBDA row : GetId(row, "stop_id") # "")
    IN  [i \in 1 .. Len(kept) |->
            [stop_id |-> GetId(kept[i], "stop_id"),
             stop_name |-> GetText(kept[i], "stop_name"),
             parent_station |-> GetId(kept[i], "parent_station")]]

load_stop_times(file) ==
    LET kept == SelectSeq(file.rows, LAMBDA row :
                    /\ GetId(row, "trip_id") # ""
                    /\ GetId(row, "stop_id") # ""
                    /\ int_of(GetText(row, "stop_sequence")) # <<>>)
    IN  [i \in 1 .. Len(kept) |->
            [trip_id |-> GetId(kept[i], "trip_id"),
             stop_sequence |-> int_of(GetText(kept[i], "stop_sequence"))[1],
             stop_id |-> GetId(kept[i], "stop_id"),
             arrival_time_sec |->
                 parse_gtfs_time_to_seconds(GetText(kept[i], "arrival_time")),
             departure_time_sec |->
                 parse_gtfs_time_to_seconds(GetText(kept[i], "departure_time"))]]

\* trip_to_service after trips.txt: the last row of a trip wins
load_trips(file) ==
    LET kept == SelectSeq(file.rows, LAMBDA row :
                    GetId(row, "trip_id") # "" /\ GetId(row, "service_id") # "")
        LastOf(t) == CHOOSE i \in 1 .. Len(kept) :
                        /\ GetId(kept[i], "trip_id") = t
                        /\ \A j \in 1 .. Len(kept) :
                               GetId(kept[j], "trip_id") = t => j <= i
    IN  [t \in {GetId(kept[i], "trip_id") : i \in 1 .. Len(kept)} |->
            GetId(kept[LastOf(t)], "service_id")]

\* the weekday columns of calendar.txt and the weekday numbers they stand for
WeekdayColumns ==
    <<"monday", "tuesday", "wednesday", "thursday", "friday", "saturday", "sunday">>

load_calendar(file) ==
    LET kept == SelectSeq(file.rows, LAMBDA row :
                    /\ GetId(row, "service_id") # ""
                    /\ strptime_compact(GetText(row, "start_date")) # <<>>
                    /\ strptime_compact(GetText(row, "end_date")) # <<>>)
        LastOf(sv) == CHOOSE i \in 1 .. Len(kept) :
                        /\ GetId(kept[i], "service_id") = sv
                        /\ \A j \in 1 .. Len(kept) :
                               GetId(kept[j], "service_id") = sv => j <= i
    IN  [sv \in {GetId(kept[i], "service_id") : i \in 1 .. Len(kept)} |->
            [start_date |-> strptime_compact(GetText(kept[LastOf(sv)], "start_date"))[1],
             end_date |-> strptime_compact(GetText(kept[LastOf(sv)], "end_date"))[1],
             weekdays |-> {k % 7 : k \in {n \in 1 .. 7 :
                 GetText(kept[LastOf(sv)], WeekdayColumns[n]) = <<"1">>}}]]

\* calendar_dates after calendar_dates.txt; nothing if the file does not exist
load_calendar_dates(file) ==
    LET kept == IF file.exists
                THEN SelectSeq(file.rows, LAMBDA row :
                         /\ GetId(row, "service_id") # ""
                         /\ GetText(row, "date") # <<>>
                         /\ int_of(GetText(row, "exception_type")) # <<>>)
                ELSE <<>>
    IN  [d \in Dates |->
            LET of_day == SelectSeq(kept, LAMBDA row :
                              GetText(row, "date") = strftime_compact(d))
            IN  [i \in 1 .. Len(of_day) |->
                    <<GetId(of_day[i], "service_id"),
                      int_of(GetText(of_day[i], "exception_type"))[1]>>]]

\* the files that open() needs, in the order _load_data opens them
OpenedFiles == <<"stops", "stop_times", "routes", "trips", "calendar">>

\* GTFSDataLoader(data_dir): the tables of the planner, or the exception raised
load_data(files) ==
    IF \E k \in 1 .. Len(OpenedFiles) : ~files[OpenedFiles[k]].exists
    THEN [raised |-> "FileNotFoundError"]
    ELSE [raised |-> "",
          stops |-> load_stops(files.stops),
          stop_times |-> load_stop_times(files.stop_times),
          trip_to_service |-> load_trips(files.trips),
          calendar |-> load_calendar(files.calendar),
          calendar_dates |-> load_calendar_dates(files.calendar_dates)]

----------------------------------------------------------------------------
(* Loading on its own: a data_dir whose files may lack columns or be       *)
(* absent and whose first stop_times row carries any departure_time text   *)

MaxFields == 3

ClockFields ==
    {<<>>, <<"0">>, <<"7">>, <<"0", "7">>, <<"5", "9">>, <<"2", "5">>,
     <<"1", "0", "0">>, <<"x">>}

RECURSIVE Join(_, _)
Join(fields, sep) ==
    IF Len(fields) = 1 THEN fields[1]
    ELSE fields[1] \o <<sep>> \o Join(Tail(fields), sep)

\* the departure_time texts explored: up to MaxFields fields joined by ":"
ClockStrings ==
    {Join(f, ":") : f \in UNION {[1 .. n -> ClockFields] : n \in 1 .. MaxFields}}

\* the rows of the files, with every column
FullRows(departure_time) ==
    [stops |->
        << [stop_id |-> "A", stop_name |-> <<"a">>, parent_station |-> ""],
           [stop_id |-> "B", stop_name |-> <<"b", " ">>, parent_station |-> ""] >>,
     stop_times |->
        << [trip_id |-> "T1", stop_id |-> "A", stop_sequence |-> <<"1">>,
            arrival_time |-> <<"0", ":", "0", "1", ":", "0", "0">>,
            departure_time |-> departure_time],
           [trip_id |-> "T1", stop_id |-> "B", stop_sequence |-> <<"2">>,
            arrival_time |-> <<"0", ":", "0", "2", ":", "0", "0">>,
            departure_time |-> <<"0", ":", "0", "2", ":", "0", "0">>] >>,
     trips |-> << [trip_id |-> "T1", route_id |-> "R1", service_id |-> "S1"] >>,
     routes |-> << [route_id |-> "R1"] >>,
     calendar |->
        << [service_id |-> "S1",
            monday |-> <<"1">>, tuesday |-> <<"0">>, wednesday |-> <<"0">>,
            thursday |-> <<"0">>, friday |-> <<"0">>, saturday |-> <<"0">>,
            sunday |-> <<"0">>,
            start_date |-> <<"2", "0", "2", "4", "0", "1", "0", "1">>,
            end_date |-> <<"2", "0", "2", "4", "0", "1", "0", "2">>] >>,
     calendar_dates |->
        << [service_id |-> "S1",
            date |-> <<"2", "0", "2", "4", "0", "1", "0", "2">>,
            exception_type |-> <<"1">>] >>]

FileNames == DOMAIN FullRows(<<>>)

\* the columns whose absence from the header is explored
DroppableColumns ==
    {<<"stops", "stop_name">>, <<"stop_times", "arrival_time">>,
     <<"stop_times", "stop_sequence">>, <<"stop_times", "departure_time">>,
     <<"trips", "service_id">>, <<"routes", "route_id">>,
     <<"calendar", "monday">>, <<"calendar_dates", "exception_type">>}

\* the sets of absent files explored
MissingFiles == {{}, {"calendar_dates"}, {"stops"}, {"calendar_dates", "trips"}}

\* data_dir with the given departure_time text, absent columns and absent files
DataDir(departure_time, dropped, missing) ==
    [f \in FileNames |->
        [exists |-> f \notin missing,
         rows |-> IF f \in missing THEN <<>>
                  ELSE LET full == FullRows(departure_time)[f]
                       IN  [i \in 1 .. Len(full) |->
                               [c \in {x \in DOMAIN full[i] : <<f, x>> \notin dropped}
                                   |-> full[i][c]]]]]

\* no planner constructed yet
InitLoad ==
    /\ \/ \E departure_time \in ClockStrings : feed = DataDir(departure_time, {}, {})
       \/ \E dropped \in SUBSET DroppableColumns, missing \in MissingFiles :
              feed = DataDir(<<"0", ":", "0", "1", ":", "0", "0">>, dropped, missing)
    /\ stops = <<>>
    /\ stop_times = <<>>
    /\ trip_to_service = <<>>
    /\ calendar = <<>>
    /\ calendar_dates = [d \in Dates |-> <<>>]
    /\ service_cache = [d \in Dates |-> NoEntry]
    /\ query = [start_id |-> "A", end_id |-> "A", date |-> 1,
                start_time_sec |-> 1, max_routes |-> 1]
    /\ hash_order = <<"A">>
    /\ runs = 0
    /\ routes = <<>>
    /\ prev_routes = <<>>
    /\ chains = <<>>
    /\ call = NoCall
    /\ threads = NoThreads
    /\ scan = NoScan
    /\ cancel_requested = FALSE

\* GTFSDataLoader(data_dir) returns a planner
LoadData ==
    /\ call = NoCall
    /\ LET loaded == load_data(feed)
       IN  /\ loaded.raised = ""
           /\ stops' = loaded.stops
           /\ stop_times' = loaded.stop_times
           /\ trip_to_service' = loaded.trip_to_service
           /\ calendar' = loaded.calendar
           /\ calendar_dates' = loaded.calendar_dates
    /\ call' = [op |-> "GTFSDataLoader", arg |-> <<>>, ret |-> <<"planner">>]
    /\ UNCHANGED <<service_cache, query_vars, feed, threads, scan, cancel_requested>>

\* GTFSDataLoader(data_dir) raises: no planner comes to exist
LoadDataRaises ==
    /\ call = NoCall
    /\ load_data(feed).raised # ""
    /\ call' = [op |-> "GTFSDataLoader", arg |-> <<>>,
                ret |-> <<load_data(feed).raised>>]
    /\ UNCHANGED <<planner_vars, service_cache, query_vars,
                   feed, threads, scan, cancel_requested>>

\* the departure_time cell of the first stop_times row of data_dir
FirstDepartureText == feed.stop_times.rows[1].departure_time

\* RouteCalculator.time_to_seconds on the text of the cell
TimeToSeconds ==
    /\ feed.stop_times.exists
    /\ "departure_time" \in DOMAIN feed.stop_times.rows[1]
    /\ call' = [op |-> "time_to_seconds", arg |-> FirstDepartureText,
                ret |-> time_to_seconds(FirstDepartureText)]
    /\ UNCHANGED <<planner_vars, service_cache, query_vars,
                   feed, threads, scan, cancel_requested>>

\* RouteCalculator.seconds_to_time on the departure of the first loaded row
SecondsToTime ==
    /\ stop_times # <<>>
    /\ call' = [op |-> "seconds_to_time", arg |-> stop_times[1].departure_time_sec,
                ret |-> seconds_to_time(stop_times[1].departure_time_sec)]
    /\ UNCHANGED <<planner_vars, service_cache, query_vars,
                   feed, threads, scan, cancel_requested>>

NextLoad == LoadData \/ LoadDataRaises \/ TimeToSeconds \/ SecondsToTime

SpecLoad == InitLoad /\ [][NextLoad]_vars

\* a clock string H:MM:SS: three fields of digits, MM and SS of two digits
\* and at most 59
WellFormedClock(text) ==
    LET f == split(text, ":")
    IN  /\ Len(f) = 3
        /\ \A k \in 1 .. 3 : f[k] # <<>> /\ AllDigits(f[k])
        /\ Len(f[2]) = 2 /\ DigitsValue(f[2]) <= 59
        /\ Len(f[3]) = 2 /\ DigitsValue(f[3]) <= 59

\* a text that is not two or three fields of digits
MalformedClock(text) ==
    LET f == split(text, ":")
    IN  ~(Len(f) \in {2, 3} /\ \A k \in 1 .. Len(f) : f[k] # <<>> /\ AllDigits(f[k]))

ClockValue(text) ==
    LET f == split(text, ":")
    IN  DigitsValue(f[1]) * 3600 + DigitsValue(f[2]) * 60 + DigitsValue(f[3])

\* the first stop_times row of data_dir has a departure_time cell
HasDepartureText ==
    /\ feed # NoFeed
    /\ feed.stop_times.exists
    /\ "departure_time" \in DOMAIN feed.stop_times.rows[1]

\* C15: a clock string H:MM:SS with MM, SS in 0..59 parses, in the loader
\* and in time_to_seconds, to H*3600 + MM*60 + SS without wrapping at 24 h;
\* seconds_to_time of that value gives hour H padded to two digits and
\* minute MM; a malformed clock string parses to 0.
C15_ClockRoundTrip ==
    HasDepartureText =>
        LET text == FirstDepartureText
        IN  /\ (stop_times # <<>> /\ WellFormedClock(text))
                   => stop_times[1].departure_time_sec = ClockValue(text)
            /\ (stop_times # <<>> /\ MalformedClock(text))
                   => stop_times[1].departure_time_sec = 0
            /\ (call.op = "time_to_seconds" /\ WellFormedClock(text))
                   => call.ret = ClockValue(text)
            /\ (call.op = "time_to_seconds" /\ MalformedClock(text))
                   => call.ret = 0
            /\ (call.op = "seconds_to_time" /\ WellFormedClock(text))
                   => LET out == split(call.ret, ":")
                      IN  /\ Len(out) = 2
                          /\ AllDigits(out[1])
                          /\ Len(out[1]) >= 2
                          /\ (Len(out[1]) > 2 => out[1][1] # "0")
                          /\ DigitsValue(out[1]) = DigitsValue(split(text, ":")[1])
                          /\ out[2] = split(text, ":")[2]

\* the columns each file must have
RequiredColumns ==
    [stops |-> {"stop_id", "stop_name", "parent_station"},
     stop_times |-> {"trip_id", "stop_id", "stop_sequence", "arrival_time",
                     "departure_time"},
     trips |-> {"trip_id", "route_id", "service_id"},
     routes |-> {"route_id"},
     calendar |-> {"service_id", "start_date", "end_date"} \cup Range(WeekdayColumns),
     calendar_dates |-> {"service_id", "date", "exception_type"}]

\* a file of data_dir lacks one of its required columns
ColumnAbsent ==
    \E f \in FileNames :
        /\ feed[f].exists
        /\ \E c \in RequiredColumns[f] : c \notin DOMAIN feed[f].rows[1]

\* C16: constructing the planner from a data_dir in which a required column
\* is absent fails instead of producing a planner; a data_dir that lacks
\* nothing but calendar_dates.txt produces a planner.
C16_RequiredColumns ==
    call.op = "GTFSDataLoader" =>
        /\ ColumnAbsent => call.ret # <<"planner">>
        /\ (/\ ~ColumnAbsent
            /\ {f \in FileNames : ~feed[f].exists} = {"calendar_dates"})
               => call.ret = <<"planner">>

----------------------------------------------------------------------------
(* route_calculator.py: find_route and find_route_by_ids from their text   *)
(* arguments                                                               *)

\* "Parse Datum": <<day number>>, or <<>> where strptime raises ValueError
parse_query_date(date) ==
    IF Len(date) = 8 THEN strptime_compact(date) ELSE strptime_dashed(date)

\* "Parse Zeit": <<start_time_sec>>, or <<>> for ValueError and IndexError
parse_query_time(time) ==
    LET time_parts == split(time, ":")
    IN  IF int_of(time_parts[1]) = <<>> THEN <<>>
        ELSE IF Len(time_parts) < 2 THEN <<>>
        ELSE IF int_of(time_parts[2]) = <<>> THEN <<>>
        ELSE <<int_of(time_parts[1])[1] * 3600 + int_of(time_parts[2])[1] * 60>>

\* "return []" before _build_connections
Rejected(cache) ==
    [routes |-> <<>>, chains |-> <<>>, cache |-> cache, built |-> FALSE]

\* the query goes on to _build_connections and _find_multiple_routes
Planned(cache, start_id, end_id, travel_date, start_time_sec, max_routes) ==
    find_route_by_ids(cache,
        [start_id |-> start_id, end_id |-> end_id, date |-> travel_date,
         start_time_sec |-> start_time_sec, max_routes |-> max_routes])
    @@ [built |-> TRUE]

\* mutant: the endpoints are compared only after the day's services were resolved
find_route_late_check(cache, start_name, end_name, date, time, max_routes) ==
    LET travel_date == parse_query_date(date)
        start_time_sec == parse_query_time(time)
        start_id == find_stop_id(start_name)
        end_id == find_stop_id(end_name)
    IN  IF travel_date = <<>> THEN Rejected(cache)
        ELSE IF start_time_sec = <<>> THEN Rejected(cache)
        ELSE IF start_id = <<>> THEN Rejected(cache)
        ELSE IF end_id = <<>> THEN Rejected(cache)
        ELSE IF start_id = end_id
        THEN [routes |-> <<>>, chains |-> <<>>, built |-> FALSE,
              cache |-> get_valid_services(cache, travel_date[1]).cache]
        ELSE Planned(cache, start_id[1], end_id[1], travel_date[1],
                     start_time_sec[1], max_routes)

find_route(cache, start_name, end_name, date, time, max_routes) ==
    LET travel_date == parse_query_date(date)
        start_time_sec == parse_query_time(time)
        start_id == find_stop_id(start_name)
        end_id == find_stop_id(end_name)
    IN  IF travel_date = <<>> THEN Rejected(cache)
        ELSE IF start_time_sec = <<>> THEN Rejected(cache)
        ELSE IF start_id = <<>> THEN Rejected(cache)
        ELSE IF end_id = <<>> THEN Rejected(cache)
        ELSE IF start_id = end_id THEN Rejected(cache)
        ELSE Planned(cache, start_id[1], end_id[1], travel_date[1],
                     start_time_sec[1], max_routes)

\* find_route_by_ids with date and time as the caller passes them
find_route_by_ids_text(cache, start_id, end_id, date, time, max_routes) ==
    LET travel_date == parse_query_date(date)
        start_time_sec == parse_query_time(time)
    IN  IF travel_date = <<>> THEN Rejected(cache)
        ELSE IF start_time_sec = <<>> THEN Rejected(cache)
        ELSE IF start_id = end_id THEN Rejected(cache)
        ELSE Planned(cache, start_id, end_id, travel_date[1],
                     start_time_sec[1], max_routes)

----------------------------------------------------------------------------
(* Queries from text arguments: a planner asked any of a few queries, good *)
(* and bad, one after another                                              *)

NamedStopsFile ==
    << [stop_id |-> "A",  stop_name |-> <<"a">>, parent_station |-> ""],
       [stop_id |-> "B",  stop_name |-> <<"b">>, parent_station |-> ""],
       [stop_id |-> "B1", stop_name |-> <<"b">>, parent_station |-> "B"],
       [stop_id |-> "C",  stop_name |-> <<"c">>, parent_station |-> ""] >>

ArgNames == {<<"a">>, <<"B", " ">>, <<"x">>}

ArgIds == {"A", "B"}

\* 1 January compact, 2 January dashed, and a day 0
ArgDates ==
    {<<"2", "0", "2", "4", "0", "1", "0", "1">>,
     <<"2", "0", "2", "4", "-", "0", "1", "-", "0", "2">>,
     <<"2", "0", "2", "4", "0", "1", "0", "0">>}

ArgTimes == {<<"0", ":", "0", "0">>, <<"0">>, <<"x", ":", "0", "0">>}

InitQuery ==
    /\ stops = NamedStopsFile
    /\ trip_to_service = [t \in Range(TripIds) |-> IF t = "T1" THEN "S1" ELSE "S2"]
    /\ calendar = Calendar
    /\ calendar_dates = [d \in Dates |-> <<>>]
    /\ stop_times = TripRows("T1", <<"A", "B1", "C">>, 1, 0)
                        \o TripRows("T2", <<"A", "B">>, 2, 0)
    /\ service_cache = [d \in Dates |-> NoEntry]
    /\ query = [start_id |-> "A", end_id |-> "B", date |-> 1,
                start_time_sec |-> 0, max_routes |-> MaxRoutes]
    /\ hash_order = expand_station_stop_ids("B")
    /\ runs = 0
    /\ routes = <<>>
    /\ prev_routes = <<>>
    /\ chains = <<>>
    /\ AuxIdle

FindRoute(start_name, end_name, date, time) ==
    /\ call' = [op |-> "find_route",
                arg |-> [start_name |-> start_name, end_name |-> end_name,
                         date |-> date, time |-> time],
                ret |-> find_route(service_cache, start_name, end_name, date, time,
                                   MaxRoutes),
                cache_at_entry |-> service_cache]
    /\ routes' = call'.ret.routes
    /\ chains' = call'.ret.chains
    /\ service_cache' = call'.ret.cache
    /\ UNCHANGED <<planner_vars, query, hash_order, runs, prev_routes,
                   feed, threads, scan, cancel_requested>>

FindRouteByIds(start_id, end_id, date, time) ==
    /\ call' = [op |-> "find_route_by_ids",
                arg |-> [start_id |-> start_id, end_id |-> end_id,
                         date |-> date, time |-> time],
                ret |-> find_route_by_ids_text(service_cache, start_id, end_id,
                                               date, time, MaxRoutes),
                cache_at_entry |-> service_cache]
    /\ routes' = call'.ret.routes
    /\ chains' = call'.ret.chains
    /\ service_cache' = call'.ret.cache
    /\ UNCHANGED <<planner_vars, query, hash_order, runs, prev_routes,
                   feed, threads, scan, cancel_requested>>

\* a call record keeps what the call produced and the memo it found at entry
NextQuery ==
    \E date \in ArgDates, time \in ArgTimes :
        \/ \E start_name \in ArgNames, end_name \in ArgNames :
               FindRoute(start_name, end_name, date, time)
        \/ \E start_id \in ArgIds, end_id \in ArgIds :
               FindRouteByIds(start_id, end_id, date, time)

SpecQuery == InitQuery /\ [][NextQuery]_vars

\* the latest call is one the claim calls a query error
QueryError(c) ==
    \/ /\ c.op \in {"find_route", "find_route_by_ids"}
       /\ \/ parse_query_date(c.arg.date) = <<>>
          \/ parse_query_time(c.arg.time) = <<>>
    \/ /\ c.op = "find_route"
       /\ \/ find_stop_id(c.arg.start_name) = <<>>
          \/ find_stop_id(c.arg.end_name) = <<>>
          \/ find_stop_id(c.arg.start_name) = find_stop_id(c.arg.end_name)
    \/ /\ c.op = "find_route_by_ids"
       /\ c.arg.start_id = c.arg.end_id

\* C11: a query whose date or time text cannot be parsed, whose start or end
\* name resolves to no stop (find_route), or whose resolved start id equals
\* its end id returns an empty list without building connections and leaves
\* the active-services memo as it was before the call.
C11_QueryErrors ==
    QueryError(call) =>
        /\ routes = <<>>
        /\ ~call.ret.built
        /\ service_cache = call.cache_at_entry

\* C11 witness: a query error on a planner whose memo an earlier query filled.
C11_Witness ==
    /\ QueryError(call)
    /\ \E d \in Dates : call.cache_at_entry[d] # NoEntry
    /\ routes = <<>>

----------------------------------------------------------------------------
(* data_loader.py: get_valid_services statement by statement, as one of    *)
(* several threads sharing the loader runs it. th is the thread's frame:   *)
(* its position pc and its locals date, cached, valid, i and the value it  *)
(* returned, ret.                                                          *)

IdleThread ==
    [pc |-> "idle", date |-> 1, cached |-> NoEntry, valid |-> {}, i |-> 1,
     ret |-> <<>>]

\* "for service_id in self.calendar": the services in file order
CalendarOrder == <<"S1", "S2">>

\* cached = self.service_cache.get(date_str); return it if not None
cache_lookup(cache, th) ==
    [cache |-> cache,
     th |-> IF cache[th.date] # NoEntry
            THEN [th EXCEPT !.cached = cache[th.date], !.ret = cache[th.date],
                            !.pc = "done"]
            ELSE [th EXCEPT !.cached = NoEntry, !.valid = {}, !.i = 1,
                            !.pc = "calendar"]]

\* one iteration of the loop over self.calendar
calendar_loop(cache, th) ==
    [cache |-> cache,
     th |-> IF th.i > Len(CalendarOrder)
            THEN [th EXCEPT !.i = 1, !.pc = "exceptions"]
            ELSE LET service_id == CalendarOrder[th.i]
                 IN  [th EXCEPT !.i = th.i + 1,
                                !.valid = IF service_id \in RegularServices(th.date)
                                          THEN th.valid \cup {service_id}
                                          ELSE th.valid]]

\* mutant: the set is put into the memo when the exception rows begin and
\* is finished there
exceptions_loop_in_memo(cache, th) ==
    LET exceptions == calendar_dates[th.date]
        service_id == exceptions[th.i][1]
        exc_type == exceptions[th.i][2]
        valid == IF th.i > Len(exceptions) THEN th.valid
                 ELSE IF exc_type = 1 THEN th.valid \cup {service_id}
                 ELSE IF exc_type = 2 THEN th.valid \ {service_id}
                 ELSE th.valid
    IN  [cache |-> [cache EXCEPT ![th.date] = <<th.valid>>],
         th |-> IF th.i > Len(exceptions) THEN [th EXCEPT !.pc = "store"]
                ELSE [th EXCEPT !.i = th.i + 1, !.valid = valid]]

\* one iteration of the while loop over the exception rows of the date
exceptions_loop(cache, th) ==
    LET exceptions == calendar_dates[th.date]
        service_id == exceptions[th.i][1]
        exc_type == exceptions[th.i][2]
    IN  [cache |-> cache,
         th |-> IF th.i > Len(exceptions) THEN [th EXCEPT !.pc = "store"]
                ELSE [th EXCEPT !.i = th.i + 1,
                                !.valid = IF exc_type = 1
                                          THEN th.valid \cup {service_id}
                                          ELSE IF exc_type = 2
                                          THEN th.valid \ {service_id}
                                          ELSE th.valid]]

\* self.service_cache[date_str] = valid; return valid
cache_store(cache, th) ==
    [cache |-> [cache EXCEPT ![th.date] = <<th.valid>>],
     th |-> [th EXCEPT !.ret = <<th.valid>>, !.pc = "done"]]

----------------------------------------------------------------------------
(* Threads sharing one loader, each calling get_valid_services for any     *)
(* date, again and again, their statements interleaved in any order        *)

Threads == {1, 2}

MemoExceptions ==
    {<<>>,
     << <<"S2", 1>> >>,
     << <<"S1", 2>>, <<"S2", 2>> >>,
     << <<"S1", 2>>, <<"S1", 1>> >>}

InitMemo ==
    /\ stops = StopsFile
    /\ stop_times = <<>>
    /\ trip_to_service = [t \in Range(TripIds) |-> IF t = "T1" THEN "S1" ELSE "S2"]
    /\ calendar = Calendar
    /\ calendar_dates \in [Dates -> MemoExceptions]
    /\ service_cache = [d \in Dates |-> NoEntry]
    /\ query = [start_id |-> "A", end_id |-> "A", date |-> 1,
                start_time_sec |-> 1, max_routes |-> 1]
    /\ hash_order = <<"A">>
    /\ runs = 0
    /\ routes = <<>>
    /\ prev_routes = <<>>
    /\ chains = <<>>
    /\ call = NoCall
    /\ feed = NoFeed
    /\ threads = [t \in Threads |-> IdleThread]
    /\ scan = NoScan
    /\ cancel_requested = FALSE

MemoShared == <<planner_vars, query_vars, call, feed, scan, cancel_requested>>

\* thread t calls get_valid_services(date_obj)
ThreadCall(t, date_obj) ==
    /\ threads[t].pc \in {"idle", "done"}
    /\ threads' = [threads EXCEPT ![t] = [IdleThread EXCEPT !.pc = "lookup",
                                                             !.date = date_obj]]
    /\ UNCHANGED <<service_cache, MemoShared>>

ThreadLookup(t) ==
    /\ threads[t].pc = "lookup"
    /\ threads' = [threads EXCEPT ![t] = cache_lookup(service_cache, threads[t]).th]
    /\ UNCHANGED <<service_cache, MemoShared>>

ThreadCalendar(t) ==
    /\ threads[t].pc = "calendar"
    /\ threads' = [threads EXCEPT ![t] = calendar_loop(service_cache, threads[t]).th]
    /\ UNCHANGED <<service_cache, MemoShared>>

ThreadExceptions(t) ==
    /\ threads[t].pc = "exceptions"
    /\ threads' = [threads EXCEPT ![t] = exceptions_loop(service_cache, threads[t]).th]
    /\ service_cache' = exceptions_loop(service_cache, threads[t]).cache
    /\ UNCHANGED MemoShared

ThreadStore(t) ==
    /\ threads[t].pc = "store"
    /\ threads' = [threads EXCEPT ![t] = cache_store(service_cache, threads[t]).th]
    /\ service_cache' = cache_store(service_cache, threads[t]).cache
    /\ UNCHANGED MemoShared

NextMemo ==
    \E t \in Threads :
        \/ \E date_obj \in Dates : ThreadCall(t, date_obj)
        \/ ThreadLookup(t)
        \/ ThreadCalendar(t)
        \/ ThreadExceptions(t)
        \/ ThreadStore(t)

SpecMemo == InitMemo /\ [][NextMemo]_vars

\* C18: whatever the interleaving of the threads' get_valid_services calls,
\* a call that has returned returned the set a sequential call for its date
\* computes, the memo then holds that set for that date, and no memo entry
\* is ever anything else (in particular never a half-built set).
C18_MemoRaceSafety ==
    /\ \A t \in Threads :
           threads[t].pc = "done" =>
               /\ threads[t].ret = <<ComputeValidServices(threads[t].date)>>
               /\ service_cache[threads[t].date] = threads[t].ret
    /\ \A d \in Dates :
           service_cache[d] # NoEntry => service_cache[d] = <<ComputeValidServices(d)>>

\* C18 witness: two calls for one date raced, both missed the memo and
\* computed, the date has exception rows that change the set, and both
\* have returned.
C18_Witness ==
    /\ threads[1].pc = "done" /\ threads[2].pc = "done"
    /\ threads[1].date = threads[2].date
    /\ threads[1].cached = NoEntry /\ threads[2].cached = NoEntry
    /\ ComputeValidServices(threads[1].date) # RegularServices(threads[1].date)

----------------------------------------------------------------------------
(* route_calculator.py: the connection scan of _find_multiple_routes one   *)
(* iteration at a time, with a caller who may ask for the running query to *)
(* be cancelled. scan holds the loop's frame: the connections, the index k *)
(* of the next one, and the label store st.                                *)

ScanPairs == {<<"A", "B">>, <<"A", "C">>, <<"B", "B1">>}

InitScan ==
    /\ stops = StopsFile
    /\ trip_to_service = [t \in Range(TripIds) |-> IF t = "T1" THEN "S1" ELSE "S2"]
    /\ calendar = Calendar
    /\ calendar_dates = [d \in Dates |-> <<>>]
    /\ stop_times = TripRows("T1", <<"A", "B1", "C">>, 1, 0)
                        \o TripRows("T2", <<"A", "B">>, 2, 0)
    /\ service_cache = [d \in Dates |-> NoEntry]
    /\ \E pr \in ScanPairs, date \in Dates, k \in 1 .. MaxRoutes :
           query = [start_id |-> pr[1], end_id |-> pr[2], date |-> date,
                    start_time_sec |-> 1, max_routes |-> k]
    /\ hash_order \in Perms(Range(expand_station_stop_ids(query.end_id)))
    /\ runs = 0
    /\ routes = <<>>
    /\ prev_routes = <<>>
    /\ chains = <<>>
    /\ AuxIdle

\* find_route_by_ids up to the head of the scan loop
StartScan ==
    /\ ~scan.running
    /\ runs < MaxRuns
    /\ LET gv == get_valid_services(service_cache, query.date)
       IN  /\ service_cache' = gv.cache
           /\ scan' = [running |-> TRUE,
                       connections |-> build_connections(gv.valid, query.start_time_sec),
                       k |-> 1,
                       st |-> InitLabels(StartIds, query.start_time_sec)]
    /\ cancel_requested' = FALSE
    /\ UNCHANGED <<planner_vars, query_vars, call, feed, threads>>

\* one iteration of "for row in connections.itertuples(...)"
ScanStep ==
    /\ scan.running
    /\ scan.k <= Len(scan.connections)
    /\ ~EarlyStop(scan.st, scan.connections[scan.k])
    /\ scan' = [scan EXCEPT !.k = scan.k + 1,
                            !.st = ScanConnection(scan.st, scan.connections[scan.k],
                                                  query.max_routes, EndIds)]
    /\ UNCHANGED <<planner_vars, service_cache, query_vars, call, feed, threads,
                   cancel_requested>>

\* the loop has ended (exhausted, or the early stop): the routes are
\* reconstructed and returned
FinishScan ==
    /\ scan.running
    /\ IF scan.k > Len(scan.connections) THEN TRUE
       ELSE EarlyStop(scan.st, scan.connections[scan.k])
    /\ routes' = RecoverRoutes(scan.st, query.max_routes, EndIds).routes
    /\ chains' = RecoverRoutes(scan.st, query.max_routes, EndIds).chains
    /\ prev_routes' = routes
    /\ runs' = runs + 1
    /\ scan' = NoScan
    /\ UNCHANGED <<planner_vars, service_cache, query, hash_order, call, feed,
                   threads, cancel_requested>>

\* the caller asks for the running query to be cancelled (or its time is up)
Cancel ==
    /\ scan.running
    /\ ~cancel_requested
    /\ cancel_requested' = TRUE
    /\ UNCHANGED <<planner_vars, service_cache, query_vars, call, feed, threads, scan>>

NextScan == StartScan \/ ScanStep \/ FinishScan \/ Cancel

SpecScan == InitScan /\ [][NextScan]_vars

\* C17: a query that was cancelled while its connection scan was running
\* returns no itineraries.
C17_Cancellation ==
    (runs >= 1 /\ ~scan.running /\ cancel_requested) => routes = <<>>

----------------------------------------------------------------------------
(* Claims about the connection array and the wait times *)

\* C24: the array the connection builder returns is ordered by non-decreasing
\* dep_time, and every connection in it arrives after it leaves and leaves
\* at or after t_start.
C24_ConnectionArray ==
    BuilderRan =>
        /\ \A i \in 1 .. Len(QueryConnections) - 1 :
               QueryConnections[i].dep_time <= QueryConnections[i + 1].dep_time
        /\ \A i \in 1 .. Len(QueryConnections) :
               /\ QueryConnections[i].arr_time > QueryConnections[i].dep_time
               /\ QueryConnections[i].dep_time >= query.start_time_sec

\* C24 witness: the builder ran on a feed whose paired rows are not in
\* departure order, one of whose active rows leaves before t_start, and
\* returned at least two connections.
C24_Witness ==
    /\ BuilderRan
    /\ Len(QueryConnections) >= 2
    /\ QueryConnections
           # FilterValidTimes(PairWithNext(SortTripStops(
                 FilterByStartTime(MergeTripStops(ActiveServices),
                                   query.start_time_sec))))
    /\ \E r \in Range(MergeTripStops(ActiveServices)) :
           r.departure_time_sec < query.start_time_sec

\* C29: in every returned itinerary the first segment has wait_time 0; every
\* later segment boards where the segment before it alights, and its
\* wait_time is its departure_time minus that segment's arrival_time, which
\* is never negative.
C29_WaitAccounting ==
    \A r \in 1 .. Len(routes) :
        /\ routes[r][1].wait_time = 0
        /\ \A i \in 2 .. Len(routes[r]) :
               /\ routes[r][i - 1].arrival_stop = routes[r][i].departure_stop
               /\ routes[r][i].wait_time
                      = routes[r][i].departure_time - routes[r][i - 1].arrival_time
               /\ routes[r][i].wait_time >= 0

\* C29 witness: a returned itinerary changes trips at a stop after waiting
\* there, and its second segment carries that gap as its wait_time.
C29_Witness ==
    /\ runs >= 1
    /\ \E r \in 1 .. Len(routes) :
           /\ Len(routes[r]) >= 2
           /\ routes[r][1].wait_time = 0
           /\ routes[r][2].departure_stop = routes[r][1].arrival_stop
           /\ routes[r][2].departure_time > routes[r][1].arrival_time
           /\ routes[r][2].wait_time
                  = routes[r][2].departure_time - routes[r][1].arrival_time

\* the connection array of the query date without pruning: all adjacent
\* pairs of rows of the active trips that arrive after they leave
UnprunedConnections ==
    SortByDepTime(FilterValidTimes(PairWithNext(SortTripStops(
        MergeTripStops(ActiveServices)))))

\* C21: the itineraries the query returns, computed from the array pruned to
\* t_start, are those the same scan computes from the unpruned array of the
\* date.
C21_PruningPreservesResult ==
    BuilderRan =>
        routes = find_multiple_routes(UnprunedConnections, query.start_id,
                     query.end_id, query.start_time_sec, query.max_routes,
                     StartIds, EndIds).routes

----------------------------------------------------------------------------
(* The scan of _find_multiple_routes on its own: the loop entered with any *)
(* of a family of sorted connection arrays, then run one iteration at a    *)
(* time to its end. call.arg keeps the array the function was called with. *)

MaxConns == 3
MaxFan == 9

\* connections a feed can give rise to: each arrives after it leaves, none
\* leaves before t_start = 1
ConnectionPool ==
    {[trip_id |-> x[1], dep_stop |-> x[2], arr_stop |-> x[3], dep_time |-> x[4],
      arr_time |-> x[5], route_name |-> trip_to_route_name(x[1])] :
        x \in {<<"T1", "A", "B1", 1, 2>>, <<"T2", "A", "B1", 1, 2>>,
               <<"T2", "A", "B", 1, 3>>, <<"T1", "A", "B1", 2, 3>>,
               <<"T1", "B1", "C", 2, 3>>, <<"T2", "A", "C", 1, 4>>,
               <<"T2", "B", "A", 1, 2>>}}

IsSortedByDepTime(conns) ==
    \A i \in 1 .. Len(conns) - 1 : conns[i].dep_time <= conns[i + 1].dep_time

PoolArrays ==
    {a \in UNION {[1 .. n -> ConnectionPool] : n \in 0 .. MaxConns} :
        IsSortedByDepTime(a)}

\* a frequent line: MaxFan connections A -> B1, of the two trips in turn,
\* that leave together and arrive in pairs, pair after pair (in scan order,
\* or in the reverse of it), and one connection onward to C after the last
\* of them has arrived
FanArray(ascending) ==
    [i \in 1 .. MaxFan + 1 |->
        IF i <= MaxFan
        THEN [trip_id |-> TripIds[1 + (i % 2)], dep_stop |-> "A", arr_stop |-> "B1",
              dep_time |-> 1,
              arr_time |-> IF ascending THEN 1 + (i + 1) \div 2
                           ELSE MaxFan + 2 - (i + 1) \div 2,
              route_name |-> trip_to_route_name(TripIds[1 + (i % 2)])]
        ELSE [trip_id |-> "T2", dep_stop |-> "B1", arr_stop |-> "C",
              dep_time |-> MaxFan + 2, arr_time |-> MaxFan + 3,
              route_name |-> trip_to_route_name("T2")]]

EngineArrays == PoolArrays \cup {FanArray(TRUE), FanArray(FALSE)}

EnginePairs == {<<"A", "B">>, <<"A", "C">>, <<"B", "B1">>}

InitEngine ==
    /\ stops = StopsFile
    /\ stop_times = <<>>
    /\ trip_to_service = [t \in Range(TripIds) |-> IF t = "T1" THEN "S1" ELSE "S2"]
    /\ calendar = Calendar
    /\ calendar_dates = [d \in Dates |-> <<>>]
    /\ \E pr \in EnginePairs, k \in 1 .. MaxRoutes :
           query = [start_id |-> pr[1], end_id |-> pr[2], date |-> 1,
                    start_time_sec |-> 1, max_routes |-> k]
    /\ service_cache = [d \in Dates |-> IF d = query.date
                                        THEN <<ComputeValidServices(d)>> ELSE NoEntry]
    /\ hash_order \in Perms(Range(expand_station_stop_ids(query.end_id)))
    /\ runs = 0
    /\ routes = <<>>
    /\ prev_routes = <<>>
    /\ chains = <<>>
    /\ \E a \in EngineArrays :
           /\ call = [op |-> "_find_multiple_routes", arg |-> [connections |-> a],
                      ret |-> <<>>]
           /\ scan = [running |-> TRUE, connections |-> a, k |-> 1,
                      st |-> InitLabels(StartIds, query.start_time_sec)]
    /\ feed = NoFeed
    /\ threads = NoThreads
    /\ cancel_requested = FALSE

NextEngine == ScanStep \/ FinishScan

SpecEngine == InitEngine /\ [][NextEngine]_vars

----------------------------------------------------------------------------
(* Claims about the label store during the scan *)

\* C23: after initialization and after every scanned connection, every
\* stop's label list holds at most max(8, 3*K) labels and is ordered by
\* non-decreasing arrival_time, labels of equal arrival in the order in
\* which they were inserted (the order of their creation).
C23_LabelStore ==
    scan.running =>
        \A s \in StopIds :
            LET labels == scan.st.labels_by_stop[s]
            IN  /\ Len(labels) <= IF 3 * query.max_routes > 8
                                  THEN 3 * query.max_routes ELSE 8
                /\ \A i \in 1 .. Len(labels) - 1 :
                       \/ scan.st.heap[labels[i]].arrival_time
                              < scan.st.heap[labels[i + 1]].arrival_time
                       \/ /\ scan.st.heap[labels[i]].arrival_time
                                 = scan.st.heap[labels[i + 1]].arrival_time
                          /\ labels[i] < labels[i + 1]

\* C23 witness: a stop's list is full, a label created for that stop is no
\* longer in it, and two of its labels arrive at the same time.
C23_Witness ==
    /\ scan.running
    /\ scan.k > 1
    /\ \E s \in StopIds :
           LET labels == scan.st.labels_by_stop[s]
           IN  /\ Len(labels) = max_labels_per_stop(query.max_routes)
               /\ \E id \in 1 .. Len(scan.st.heap) :
                      scan.st.heap[id].stop_id = s /\ id \notin Range(labels)
               /\ \E i \in 1 .. Len(labels) - 1 :
                      scan.st.heap[labels[i]].arrival_time
                          = scan.st.heap[labels[i + 1]].arrival_time

\* C25: at every point of the scan, a label without predecessor stands on a
\* start stop with arrival_time = t_start; every other label was created
\* after its predecessor, its predecessor stands on its dep_stop and arrived
\* there no later than its dep_time, and it arrives after its dep_time; so
\* no label arrives before t_start and the walk back from any label reaches
\* a start label without meeting the cycle guard.
C25_LabelChain ==
    scan.running =>
        \A id \in 1 .. Len(scan.st.heap) :
            LET lab == scan.st.heap[id]
            IN  /\ lab.arrival_time >= query.start_time_sec
                /\ IF lab.prev = NoLabel
                   THEN /\ lab.arrival_time = query.start_time_sec
                        /\ lab.stop_id \in Range(StartIds)
                   ELSE /\ lab.prev \in 1 .. id - 1
                        /\ scan.st.heap[lab.prev].stop_id = lab.dep_stop
                        /\ scan.st.heap[lab.prev].arrival_time <= lab.dep_time
                        /\ lab.dep_time < lab.arrival_time
                        /\ CollectRev(scan.st.heap, id, {}).ok
                        /\ Len(CollectRev(scan.st.heap, id, {}).list) >= 1

\* C25 witness: a label was created from a label that is itself not a start
\* label and that had arrived before the connection left.
C25_Witness ==
    /\ scan.running
    /\ \E id \in 1 .. Len(scan.st.heap) :
           LET lab == scan.st.heap[id]
           IN  /\ lab.prev # NoLabel
               /\ scan.st.heap[lab.prev].prev # NoLabel
               /\ scan.st.heap[lab.prev].arrival_time < lab.dep_time
               /\ Len(CollectRev(scan.st.heap, id, {}).list) = 2

\* arrival times of the labels now stored at the end stops, ascending
EndArrivals(st) ==
    LET ids == SortByArrival(st.heap, EndLabels(st, EndIds))
    IN  [i \in 1 .. Len(ids) |-> st.heap[ids[i]].arrival_time]

\* C26: at every early-stop test of the scan the threshold in use is the
\* K-th smallest arrival time among the labels now stored at the end stops,
\* start labels included, and there is no threshold exactly when those stops
\* hold fewer than K labels.
C26_Threshold ==
    (scan.running /\ scan.k <= Len(scan.connections)) =>
        IF Len(EndArrivals(scan.st)) < query.max_routes
        THEN scan.st.worst_end_arrival = NoTime
        ELSE scan.st.worst_end_arrival = EndArrivals(scan.st)[query.max_routes]

----------------------------------------------------------------------------
(* Claims about the result of the scan *)

\* the label store at the end of the scan of the array the function was
\* called with
EngineScan ==
    ScanResult(call.arg.connections, query.start_time_sec, query.max_routes,
               StartIds, EndIds)

\* the distinct itineraries that the labels stored at the end stops
\* reconstruct to, as their keys
EndItineraries(st) ==
    {RouteHash(reconstruct_route_from_label(st.heap, id)) :
        id \in {x \in Range(EndLabels(st, EndIds)) :
                   reconstruct_route_from_label(st.heap, x) # <<>>}}

\* C22: when the labels stored at the end stops at the end of the scan
\* reconstruct to at least K distinct itineraries, the query returns exactly
\* K itineraries (and otherwise all of them).
C22_RecoveryReachesK ==
    (runs >= 1 /\ ~scan.running) =>
        Len(routes) = IF Cardinality(EndItineraries(EngineScan)) >= query.max_routes
                      THEN query.max_routes
                      ELSE Cardinality(EndItineraries(EngineScan))

\* the scan of the whole array, without the early-stop test of line 306
RECURSIVE ScanAll(_, _, _, _, _)
ScanAll(st, connections, k, max_routes, end_ids) ==
    IF k > Len(connections) THEN st
    ELSE ScanAll(ScanConnection(st, connections[k], max_routes, end_ids),
                 connections, k + 1, max_routes, end_ids)

\* C27: the itineraries returned by the scan that stops at the first
\* connection departing after the threshold are the itineraries recovered
\* from the scan of the whole array.
C27_EarlyStopPreservesResult ==
    (runs >= 1 /\ ~scan.running) =>
        routes = RecoverRoutes(ScanAll(InitLabels(StartIds, query.start_time_sec),
                                       call.arg.connections, 1,
                                       query.max_routes, EndIds),
                               query.max_routes, EndIds).routes

C27_Witness ==
    /\ runs >= 1
    /\ ~scan.running
    /\ Len(routes) = query.max_routes
    /\ query.max_routes >= 2
    /\ EngineScan # ScanAll(InitLabels(StartIds, query.start_time_sec),
                            call.arg.connections, 1, query.max_routes, EndIds)

----------------------------------------------------------------------------
(* main.py: _connection_scan_algorithm, the single-label scan *)

\* INF = 1 << 60: above every time of day
INF == 2147483647

\* the two dictionaries before the scan
CsaStart(start_stop, start_time_sec) ==
    [earliest_arrival    |-> [s \in StopIds |-> IF s = start_stop
                                                 THEN start_time_sec ELSE INF],
     previous_connection |-> [s \in StopIds |-> NoEntry]]

\* the mutant: a connection that leaves at the very time its departure stop
\* is reached cannot be taken
CsaRelaxStrict(cs, c) ==
    IF cs.earliest_arrival[c.dep_stop] < c.dep_time /\ c.arr_time < cs.earliest_arrival[c.arr_stop]
    THEN [earliest_arrival    |-> [cs.earliest_arrival EXCEPT ![c.arr_stop] = c.arr_time],
          previous_connection |-> [cs.previous_connection EXCEPT ![c.arr_stop] = <<c>>]]
    ELSE cs

\* the body of the scan loop for connection c
CsaRelax(cs, c) ==
    IF cs.earliest_arrival[c.dep_stop] <= c.dep_time
    THEN IF c.arr_time < cs.earliest_arrival[c.arr_stop]
         THEN [earliest_arrival    |-> [cs.earliest_arrival EXCEPT ![c.arr_stop] = c.arr_time],
               previous_connection |-> [cs.previous_connection EXCEPT ![c.arr_stop] = <<c>>]]
         ELSE cs
    ELSE cs

RECURSIVE CsaScan(_, _, _)
CsaScan(cs, connections, k) ==
    IF k > Len(connections) THEN cs
    ELSE CsaScan(CsaRelax(cs, connections[k]), connections, k + 1)

\* the while loop from end_stop back to start_stop: the connections in
\* travel order, ok = FALSE when a stop has no previous connection
RECURSIVE CsaBacktrack(_, _, _)
CsaBacktrack(previous_connection, current_stop, start_stop) ==
    IF current_stop = start_stop THEN [ok |-> TRUE, list |-> <<>>]
    ELSE IF previous_connection[current_stop] = NoEntry
    THEN [ok |-> FALSE, list |-> <<>>]
    ELSE LET conn_tuple == previous_connection[current_stop][1]
             rest       == CsaBacktrack(previous_connection, conn_tuple.dep_stop,
                                        start_stop)
         IN  [ok |-> rest.ok, list |-> Append(rest.list, conn_tuple)]

CsaWaitTime(connections_list, i) ==
    IF i > 1
    THEN IF connections_list[i - 1].arr_stop = connections_list[i].dep_stop
         THEN Max2(0, connections_list[i].dep_time - connections_list[i - 1].arr_time)
         ELSE 0
    ELSE 0

CsaSegments(connections_list) ==
    [i \in 1 .. Len(connections_list) |->
        [trip_id             |-> connections_list[i].trip_id,
         route_name          |-> connections_list[i].route_name,
         departure_stop      |-> connections_list[i].dep_stop,
         departure_stop_name |-> get_stop_name(connections_list[i].dep_stop),
         departure_time      |-> connections_list[i].dep_time,
         arrival_stop        |-> connections_list[i].arr_stop,
         arrival_stop_name   |-> get_stop_name(connections_list[i].arr_stop),
         arrival_time        |-> connections_list[i].arr_time,
         wait_time           |-> CsaWaitTime(connections_list, i)]]

\* NoEntry stands for None, <<segments>> for the list returned
main_connection_scan_algorithm(connections, start_stop, end_stop, start_time_sec) ==
    LET cs   == CsaScan(CsaStart(start_stop, start_time_sec), connections, 1)
        back == CsaBacktrack(cs.previous_connection, end_stop, start_stop)
    IN  IF cs.earliest_arrival[end_stop] = INF THEN NoEntry
        ELSE IF ~back.ok THEN NoEntry
        ELSE <<CsaSegments(back.list)>>

----------------------------------------------------------------------------
(* route_calculator.py: _connection_scan_algorithm, the engine with K = 1 *)

\* NoEntry stands for None, <<segments>> for routes[0]
connection_scan_algorithm(connections, start_stop, end_stop, start_time_sec) ==
    LET found == find_multiple_routes(connections, start_stop, end_stop,
                                      start_time_sec, 1, <<>>, <<>>).routes
    IN  IF found # <<>> THEN <<found[1]>> ELSE NoEntry

----------------------------------------------------------------------------
(* Both scans on the same array, one start stop and one end stop *)

CsaPairs ==
    {<<"A", "C">>, <<"A", "B1">>, <<"A", "B">>, <<"B", "C">>, <<"C", "A">>,
     <<"A", "A">>}

CsaStartTimes == 1 .. 2

InitCsa ==
    /\ stops = StopsFile
    /\ stop_times = <<>>
    /\ trip_to_service = [t \in Range(TripIds) |-> IF t = "T1" THEN "S1" ELSE "S2"]
    /\ calendar = Calendar
    /\ calendar_dates = [d \in Dates |-> <<>>]
    /\ \E pr \in CsaPairs, k \in 1 .. MaxRoutes, t \in CsaStartTimes :
           query = [start_id |-> pr[1], end_id |-> pr[2], date |-> 1,
                    start_time_sec |-> t, max_routes |-> k]
    /\ service_cache = [d \in Dates |-> NoEntry]
    /\ hash_order = <<>>
    /\ runs = 0
    /\ routes = <<>>
    /\ prev_routes = <<>>
    /\ chains = <<>>
    /\ \E a \in EngineArrays :
           call = [op |-> "none", arg |-> [connections |-> a], ret |-> NoEntry]
    /\ scan = NoScan
    /\ feed = NoFeed
    /\ threads = NoThreads
    /\ cancel_requested = FALSE

\* PyRouteCH._connection_scan_algorithm(connections, start, end, t)
SingleLabelCall ==
    /\ call.op = "none"
    /\ call' = [call EXCEPT
                  !.op = "_connection_scan_algorithm",
                  !.ret = <<main_connection_scan_algorithm(
                               call.arg.connections, query.start_id, query.end_id,
                               query.start_time_sec)>>]
    /\ UNCHANGED <<planner_vars, service_cache, query_vars, feed, threads, scan,
                   cancel_requested>>

\* RouteCalculator._connection_scan_algorithm(connections, start, end, t)
EngineSingleCall ==
    /\ runs = 0
    /\ query.max_routes = 1
    /\ routes' = LET r == connection_scan_algorithm(
                              call.arg.connections, query.start_id, query.end_id,
                              query.start_time_sec)
                 IN  IF r = NoEntry THEN <<>> ELSE r
    /\ runs' = 1
    /\ UNCHANGED <<planner_vars, service_cache, query, hash_order, prev_routes,
                   chains, aux_vars>>

\* RouteCalculator._find_multiple_routes(connections, start, end, t, K), K > 1
EngineMultipleCall ==
    /\ runs = 0
    /\ query.max_routes > 1
    /\ routes' = find_multiple_routes(call.arg.connections, query.start_id,
                                      query.end_id, query.start_time_sec,
                                      query.max_routes, <<>>, <<>>).routes
    /\ runs' = 1
    /\ UNCHANGED <<planner_vars, service_cache, query, hash_order, prev_routes,
                   chains, aux_vars>>

NextCsa == SingleLabelCall \/ EngineSingleCall \/ EngineMultipleCall

SpecCsa == InitCsa /\ [][NextCsa]_vars

\* the single-label scan has returned an itinerary
CsaFound == call.ret[1] # NoEntry /\ call.ret[1][1] # <<>>

\* C28: on the same array, start stop, end stop and start time, the engine
\* returns an itinerary exactly when the single-label scan does, and its first
\* itinerary alights at the end stop at the time the single-label itinerary
\* does, for K = 1 and for every K > 1.
C28_SingleLabelEquivalence ==
    (runs = 1 /\ call.op # "none") =>
        /\ (routes # <<>>) <=> CsaFound
        /\ CsaFound =>
               LastSegment(routes[1]).arrival_time
                   = LastSegment(call.ret[1][1]).arrival_time

\* both have run and found the itinerary with a transfer that beats the
\* direct ride
C28_Witness ==
    /\ runs = 1
    /\ call.op # "none"
    /\ CsaFound
    /\ Len(call.ret[1][1]) = 2
    /\ Len(routes[1]) = 2
    /\ \E i \in 1 .. Len(call.arg.connections) :
           /\ call.arg.connections[i].dep_stop = query.start_id
           /\ call.arg.connections[i].arr_stop = query.end_id
           /\ call.arg.connections[i].dep_time >= query.start_time_sec

----------------------------------------------------------------------------
(* formatter.py: RouteFormatter.  A line of the output is the sequence of  *)
(* its pieces: the literal texts and the names as they are, the numbers as *)
(* their digits.                                                            *)

\* RouteFormatter.seconds_to_time
RouteFormatter_seconds_to_time(seconds) ==
    LET hours   == seconds \div 3600
        minutes == (seconds % 3600) \div 60
    IN  Format02d(hours) \o <<":">> \o Format02d(minutes)

\* "=" * 50 and "-" * 50
RuleLine(ch) ==
    IF ch = "=" THEN <<"==================================================">>
    ELSE <<"--------------------------------------------------">>

\* the text of the total travel time
TimeStr(total_seconds) ==
    LET hours   == total_seconds \div 3600
        minutes == (total_seconds % 3600) \div 60
        minutes_text == DigitsOf(minutes)
                            \o <<IF minutes # 1 THEN " Minuten" ELSE " Minute">>
    IN  IF hours > 0
        THEN DigitsOf(hours) \o <<IF hours > 1 THEN " Stunden" ELSE " Stunde">>
                 \o <<", ">> \o minutes_text
        ELSE minutes_text

\* the transfer information after segment i (none after the last segment)
TransferLines(route, i) ==
    IF i < Len(route)
    THEN << <<"  ------------------------------------------------">>,
            <<"  UMSTIEG: ", route[i].arrival_stop_name, " (">>
                \o DigitsOf(route[i].wait_time \div 60)
                \o <<" Minuten Wartezeit)">>,
            <<"  ------------------------------------------------">> >>
    ELSE <<>>

\* the lines of segment i
SegmentLines(route, i) ==
    << <<"  ">> \o DigitsOf(i) \o <<". FAHRT">>,
       <<"     > Abfahrt: ">> \o RouteFormatter_seconds_to_time(route[i].departure_time)
           \o <<"  | ", route[i].departure_stop_name>>,
       <<"     > Ankunft: ">> \o RouteFormatter_seconds_to_time(route[i].arrival_time)
           \o <<"  | ", route[i].arrival_stop_name>>,
       <<"     > Linie:   ",
         IF route[i].route_name # "" THEN route[i].route_name ELSE "Unbekannt">> >>
        \o TransferLines(route, i)

RECURSIVE RouteLines(_, _)
RouteLines(route, i) ==
    IF i > Len(route) THEN <<>>
    ELSE SegmentLines(route, i) \o RouteLines(route, i + 1)

\* the lines that "\n".join(output) joins
format_route_output(route, start_name, end_name, start_time) ==
    IF route = <<>> THEN << <<"Keine Route gefunden.">> >>
    ELSE << RuleLine("="),
            <<" OptimalRoute.CH | Verbindung gefunden">>,
            RuleLine("="),
            <<"Startpunkt: ", start_name, " (">>
                \o RouteFormatter_seconds_to_time(route[1].departure_time) \o <<")">>,
            <<"Zielpunkt:  ", end_name, " (">>
                \o RouteFormatter_seconds_to_time(route[Len(route)].arrival_time) \o <<")">>,
            <<"GESAMTREISEZEIT: ">>
                \o TimeStr(route[Len(route)].arrival_time - route[1].departure_time),
            RuleLine("-") >>
         \o RouteLines(route, 1)
         \o <<RuleLine("=")>>

----------------------------------------------------------------------------
(* The itineraries of a query, rendered *)

\* connections on the clock: 08:00 is 28800
ClockPool ==
    {[trip_id |-> x[1], dep_stop |-> x[2], arr_stop |-> x[3], dep_time |-> x[4],
      arr_time |-> x[5], route_name |-> trip_to_route_name(x[1])] :
        x \in {<<"T1", "A", "B1", 28800, 30300>>, <<"T2", "B1", "C", 30600, 32400>>,
               <<"T2", "B1", "C", 30390, 32400>>, <<"T1", "B1", "C", 30300, 32400>>,
               <<"T2", "A", "C", 28800, 32460>>, <<"T1", "C", "B", 32460, 36120>>}}

ClockArrays ==
    {a \in UNION {[1 .. n -> ClockPool] : n \in 0 .. MaxConns} :
        IsSortedByDepTime(a)}

ClockPairs == {<<"A", "C">>, <<"A", "B">>}

InitFormat ==
    /\ stops = StopsFile
    /\ stop_times = <<>>
    /\ trip_to_service = [t \in Range(TripIds) |-> IF t = "T1" THEN "S1" ELSE "S2"]
    /\ calendar = Calendar
    /\ calendar_dates = [d \in Dates |-> <<>>]
    /\ \E pr \in ClockPairs, k \in 1 .. MaxRoutes :
           query = [start_id |-> pr[1], end_id |-> pr[2], date |-> 1,
                    start_time_sec |-> 28800, max_routes |-> k]
    /\ service_cache = [d \in Dates |-> NoEntry]
    /\ hash_order \in Perms(Range(expand_station_stop_ids(query.end_id)))
    /\ runs = 0
    /\ routes = <<>>
    /\ prev_routes = <<>>
    /\ chains = <<>>
    /\ \E a \in ClockArrays :
           call = [op |-> "none", arg |-> [connections |-> a], ret |-> <<>>]
    /\ scan = NoScan
    /\ feed = NoFeed
    /\ threads = NoThreads
    /\ cancel_requested = FALSE

\* the itineraries of the query
FindRoutes ==
    /\ runs = 0
    /\ routes' = find_multiple_routes(call.arg.connections, query.start_id,
                                      query.end_id, query.start_time_sec,
                                      query.max_routes, StartIds, EndIds).routes
    /\ runs' = 1
    /\ UNCHANGED <<planner_vars, service_cache, query, hash_order, prev_routes,
                   chains, aux_vars>>

\* format_route_output(route, start_name, end_name, "08:00") for one of the
\* itineraries, or for no itinerary
FormatRouteOutput ==
    /\ runs = 1
    /\ call.op = "none"
    /\ \E route \in (IF routes = <<>> THEN {<<>>} ELSE Range(routes)) :
           call' = [op  |-> "format_route_output",
                    arg |-> [connections |-> call.arg.connections, route |-> route],
                    ret |-> format_route_output(route, get_stop_name(query.start_id),
                                                get_stop_name(query.end_id),
                                                <<"0", "8", ":", "0", "0">>)]
    /\ UNCHANGED <<planner_vars, service_cache, query_vars, feed, threads, scan,
                   cancel_requested>>

NextFormat == FindRoutes \/ FormatRouteOutput

SpecFormat == InitFormat /\ [][NextFormat]_vars

\* the transfer lines of a rendered text, in order
RenderedTransfers(lines) == SelectSeq(lines, LAMBDA l : l[1] = "  UMSTIEG: ")

\* C30: in the text of an itinerary with n >= 2 segments, the i-th transfer
\* line (1 <= i < n) names the stop where segment i alights and shows the
\* whole minutes between the arrival of segment i and the departure of
\* segment i + 1.
C30_DisplayedWait ==
    (call.op = "format_route_output" /\ Len(call.arg.route) >= 2) =>
        /\ Len(RenderedTransfers(call.ret)) = Len(call.arg.route) - 1
        /\ \A i \in 1 .. Len(call.arg.route) - 1 :
               RenderedTransfers(call.ret)[i]
                   = <<"  UMSTIEG: ", call.arg.route[i].arrival_stop_name, " (">>
                         \o DigitsOf((call.arg.route[i + 1].departure_time
                                          - call.arg.route[i].arrival_time) \div 60)
                         \o <<" Minuten Wartezeit)">>

====
